---- MODULE Spec2Model ----
(***************************************************************************)
(* A model of murderrl's geometry core: the grid pathfinder                *)
(* (library/pathfind.py) and the Shape algebra (library/shape.py).         *)
(*                                                                         *)
(* Coordinates are pairs <<x, y>>, 0-based, x the column and y the row.    *)
(* Python's None is the empty tuple for coordinate-valued fields and the   *)
(* string "None" for glyphs.                                               *)
(***************************************************************************)
EXTENDS Integers, Sequences, FiniteSets, TLC

VARIABLES
    fgrid,                \* Pathfind.fgrid: the traversability oracle
    start,                \* Pathfind.start
    target,               \* Pathfind.target (None until bound)
    given_target,         \* the target argument of Pathfind.__init__
    target_condition,     \* Pathfind.target_condition
    check_pos_condition,  \* Pathfind.check_pos_condition
    dirs,                 \* the order in which AdjacencyIterator yields
    dgrid,                \* Pathfind.dgrid
    pgrid,                \* Pathfind.pgrid
    nlist,                \* Pathfind.nlist, the frontier
    pc,                   \* "idle", "pathfind" in the search loop, "backtrack"
    method,               \* the public method whose call is running
    steps,                \* expansions performed by the running/last search
    popped,               \* cells expanded by the running/last search, in order
    hist,                 \* the completed calls and what they returned
    canvas,               \* Shape._canvas of the Shape operated on
    built,                \* its _canvas as constructed
    op,                   \* the last operation applied and its arguments
    prev,                 \* the operation applied before it
    res,                  \* what the last operation returned or raised
    phase,                \* "new", "normalised" or "done"
    kind,                 \* the class of the container indexed
    self_fill,            \* AutoShape.fill
    before,               \* the container's cells before the last call
    grid,                 \* a Grid: its _width, _height and grid
    views,                \* the column and row views created, in order
    calls,                \* the number of calls made on the container
    arg1,                 \* the first object passed to a composition function
    arg2,                 \* the second object passed to it
    style,                \* builder's style argument
    row1,                 \* builder's row1, the top row of rooms
    row2,                 \* builder's row2, the bottom row of rooms
    left,                 \* builder's left counter
    right,                \* builder's right counter
    adjust_bottom,        \* builder's adjust_bottom draw (None until drawn)
    join_overlap,         \* builder's overlap (None until set)
    step,                 \* where builder is: "grow", "top", "adjust", ...
    failure               \* the exception builder raised, "" if none

pathVars == <<fgrid, start, target, given_target, target_condition, check_pos_condition, dirs,
              dgrid, pgrid, nlist, pc, method, steps, popped, hist>>

shapeVars == <<canvas, built, op, prev, res, phase>>

cellVars == <<kind, self_fill, before, grid, views, calls>>

joinVars == <<arg1, arg2>>

manorVars == <<style, row1, row2, left, right, adjust_bottom, join_overlap, step, failure>>

vars == <<pathVars, shapeVars, cellVars, joinVars, manorVars>>

----------------------------------------------------------------------------
(* Bounds of the model and constants of the program.                       *)

MaxW == 4
MaxH == 2
MaxCells == 6
MaxCalls == 2
MaxRows == 2
MaxCols == 2
MaxOffset == 1
MaxOps == 2
MaxViews == 2
MaxBox == 3
MaxBorder == 3

INFINITY == 10000
DefaultRoomWidth == 12
DefaultRoomHeight == 7

None == <<>>

----------------------------------------------------------------------------
(* Coordinates (library/coord.py, which this repository's src/ lacks).     *)

Cells(size) == (0 .. size[1] - 1) \X (0 .. size[2] - 1)

\* Coord.__lt__: strictly inside the rectangle whose far corner is b.
CoordLess(a, b) == a[1] < b[1] /\ a[2] < b[2]

CoordAdd(a, b) == <<a[1] + b[1], a[2] + b[2]>>

Abs(n) == IF n < 0 THEN -n ELSE n

Manhattan(a, b) == Abs(a[1] - b[1]) + Abs(a[2] - b[2])

Adjacent(a, b) == Manhattan(a, b) = 1

\* The orders in which the four orthogonal neighbours may be yielded.
AdjacencyOrders ==
    { << <<0, -1>>, <<0, 1>>, <<-1, 0>>, <<1, 0>> >>,
      << <<-1, 0>>, <<0, -1>>, <<1, 0>>, <<0, 1>> >> }

\* coord.AdjacencyIterator(curr, include_diagonals=False)
AdjacencyIterator(curr) == [i \in 1 .. 4 |-> CoordAdd(curr, dirs[i])]

\* fgrid.__getitem__(pos).traversable(): the oracle answers for any
\* coordinate; one outside the map is not passable.
Traversable(pos) == pos \in fgrid.open

\* A predicate argument: absent (None), or present and true on a set.
Holds(cond, pos) == cond.some /\ pos \in cond.at

----------------------------------------------------------------------------
(* Grid, DistanceGrid, PrevGrid.                                           *)

\* Grid.__init__(size, value)
Grid(size, value) == [c \in Cells(size) |-> value]

Grid_getvalue(g, pos) == g[pos]

Grid_setvalue(g, pos, value) == [g EXCEPT ![pos] = value]

----------------------------------------------------------------------------
(* Pathfind.                                                               *)

InList(pos, s) == \E i \in 1 .. Len(s) : s[i] = pos

\* list.remove(x): drops the first occurrence of x.
RECURSIVE Remove(_, _)
Remove(s, x) ==
    IF s = <<>> THEN <<>>
    ELSE IF Head(s) = x THEN Tail(s)
    ELSE <<Head(s)>> \o Remove(Tail(s), x)

\* check_target with the test for an absent predicate inverted.
check_target_inverted(pos, tgt) ==
    \/ pos = tgt
    \/ ~target_condition.some
    \/ Holds(target_condition, pos)

\* Pathfind.check_target, with the target as the search has bound it so far
check_target(pos, tgt) ==
    \/ pos = tgt
    \/ Holds(target_condition, pos)

\* A neighbour given the distance of the cell it is reached from.
NewDist_same(d, curr) == Grid_getvalue(d, curr)

\* new_dist = self.dgrid.__getvalue__(curr) + 1
NewDist(d, curr) == Grid_getvalue(d, curr) + 1

\* The body of add_neighbours' loop for one traversable, accepted pos.
Relax(st, curr, pos) ==
    LET new_dist == NewDist(st.dgrid, curr) IN
    IF InList(pos, st.nlist)
    THEN IF Grid_getvalue(st.dgrid, pos) > new_dist
         THEN [st EXCEPT !.dgrid = Grid_setvalue(@, pos, new_dist),
                         !.pgrid = Grid_setvalue(@, pos, curr)]
         ELSE st
    ELSE IF Grid_getvalue(st.dgrid, pos) = INFINITY
         THEN [st EXCEPT !.dgrid = Grid_setvalue(@, pos, new_dist),
                         !.pgrid = Grid_setvalue(@, pos, curr),
                         !.nlist = Append(@, pos)]
         ELSE st

\* Pathfind.add_neighbours(curr), from the i-th neighbour on.  st carries
\* dgrid, pgrid, nlist, target; the result adds found, the return value.
RECURSIVE add_neighbours_from(_, _, _, _)
add_neighbours_from(i, ps, curr, st) ==
    IF i > Len(ps) THEN [st EXCEPT !.found = FALSE]
    ELSE LET pos == ps[i] IN
         IF ~Traversable(pos) THEN add_neighbours_from(i + 1, ps, curr, st)
         ELSE IF check_pos_condition.some /\ ~Holds(check_pos_condition, pos)
         THEN add_neighbours_from(i + 1, ps, curr, st)
         ELSE LET st1 == Relax(st, curr, pos) IN
              IF check_target(pos, st1.target)
              THEN [st1 EXCEPT !.target = IF @ = None THEN pos ELSE @,
                               !.found = TRUE]
              ELSE add_neighbours_from(i + 1, ps, curr, st1)

add_neighbours(curr, st) ==
    add_neighbours_from(1, AdjacencyIterator(curr), curr, st)

\* list.sort(key=cmp_to_key(_cmp)): a stable sort by recorded distance.
RECURSIVE InsertByDist(_, _, _)
InsertByDist(p, s, d) ==
    IF s = <<>> THEN <<p>>
    ELSE IF Grid_getvalue(d, p) < Grid_getvalue(d, Head(s)) THEN <<p>> \o s
    ELSE <<Head(s)>> \o InsertByDist(p, Tail(s), d)

RECURSIVE SortByDist(_, _)
SortByDist(s, d) ==
    IF s = <<>> THEN <<>>
    ELSE InsertByDist(s[Len(s)], SortByDist(SubSeq(s, 1, Len(s) - 1), d), d)

\* Pathfind.backtrack(begin).  A predecessor chain that never reaches None
\* would never return; fuel cuts it and BacktrackReturns tells.
RECURSIVE BacktrackFrom(_, _, _)
BacktrackFrom(next, pg, fuel) ==
    IF next = None \/ fuel = 0 THEN <<>>
    ELSE <<next>> \o BacktrackFrom(Grid_getvalue(pg, next), pg, fuel - 1)

RECURSIVE Reverse(_)
Reverse(s) == IF s = <<>> THEN <<>> ELSE Append(Reverse(Tail(s)), Head(s))

\* backtrack stopping at the last cell that has a predecessor.
backtrack_skips_start(begin, pg) ==
    LET p == BacktrackFrom(begin, pg, Cardinality(DOMAIN pg))
    IN  SubSeq(p, 1, Len(p) - 1)

\* backtrack inserting each cell at the front of the list.
backtrack_forward(begin, pg) ==
    Reverse(BacktrackFrom(begin, pg, Cardinality(DOMAIN pg)))

backtrack(begin, pg) == BacktrackFrom(begin, pg, Cardinality(DOMAIN pg))

\* Pathfind.pathfind's loop run to its return from the grids in st: found
\* tells a cell was returned rather than None.  fuel bounds the turns.
RECURSIVE pathfind_loop(_, _)
pathfind_loop(st, fuel) ==
    IF Len(st.nlist) = 0 \/ fuel = 0 THEN [st EXCEPT !.found = FALSE]
    ELSE LET curr == st.nlist[1]
             st1 == add_neighbours(curr, [st EXCEPT !.nlist = Remove(@, curr)])
         IN  IF st1.found THEN st1
             ELSE pathfind_loop([st1 EXCEPT !.nlist = SortByDist(@, st1.dgrid)],
                                fuel - 1)

\* get_path() of a Pathfind just constructed with target tgt on a grid of
\* the given size, from start cell from; <<>> stands for None.
get_path_fresh(size, from, tgt) ==
    IF from = tgt THEN <<from>>
    ELSE LET r == pathfind_loop([dgrid |-> Grid_setvalue(Grid(size, INFINITY), from, 0),
                                 pgrid |-> Grid(size, None),
                                 nlist |-> <<from>>, target |-> tgt,
                                 found |-> FALSE],
                                Cardinality(Cells(size)) + 1)
         IN  IF r.found THEN backtrack(r.target, r.pgrid) ELSE <<>>

RECURSIVE ChainEnds(_, _, _)
ChainEnds(next, pg, fuel) ==
    IF next = None THEN TRUE
    ELSE IF fuel = 0 THEN FALSE
    ELSE ChainEnds(Grid_getvalue(pg, next), pg, fuel - 1)

BacktrackReturns(begin, pg) == ChainEnds(begin, pg, Cardinality(DOMAIN pg))

----------------------------------------------------------------------------
(* Shape (library/shape.py).  A canvas is the list of rows _canvas holds,   *)
(* each row the list of its glyphs; rows may differ in length.  An         *)
(* optional integer argument is None or <<n>>.  The result of an operation *)
(* is the canvas it leaves or returns and the exception it raised, if any. *)

NoneGlyph == "None"

Max(a, b) == IF a >= b THEN a ELSE b

Done(c) == [canvas |-> c, err |-> ""]

Raised(c, e) == [canvas |-> c, err |-> e]

\* list[i] for a list of n items: the 1-based position, 0 for IndexError.
PyIndex(n, i) ==
    IF 0 <= i /\ i < n THEN i + 1
    ELSE IF -n <= i /\ i < 0 THEN n + i + 1
    ELSE 0

RECURSIVE MaxLen(_)
MaxLen(c) == IF c = <<>> THEN 0 ELSE Max(Len(Head(c)), MaxLen(Tail(c)))

\* Shape.width
Width(c) == MaxLen(c)

\* Shape.height
Height(c) == Len(c)

\* Shape.size
Size(c) == <<Width(c), Height(c)>>

\* Size.__le__
SizeLeq(a, b) == a[1] <= b[1] /\ a[2] <= b[2]

\* n appends of v to an empty list; none when n <= 0, as range(n) is empty.
Repeat(n, v) == [i \in 1 .. Max(n, 0) |-> v]

\* Shape.__init__(width=, height=, fill=) without sh_list
Shape(width, height, fill) == Repeat(height, Repeat(width, fill))

\* Shape.__getitem__(Coord)
Shape_getitem(c, xy) ==
    LET r == PyIndex(Len(c), xy[2]) IN
    IF r = 0 THEN [glyph |-> NoneGlyph, err |-> "IndexError"]
    ELSE LET x == PyIndex(Len(c[r]), xy[1]) IN
         IF x = 0 THEN [glyph |-> NoneGlyph, err |-> "IndexError"]
         ELSE [glyph |-> c[r][x], err |-> ""]

\* Shape.__setitem__(Coord, value)
Shape_setitem(c, xy, value) ==
    LET r == PyIndex(Len(c), xy[2]) IN
    IF r = 0 THEN Raised(c, "IndexError")
    ELSE LET x == PyIndex(Len(c[r]), xy[1]) IN
         IF x = 0 THEN Raised(c, "IndexError")
         ELSE Done([c EXCEPT ![r][x] = value])

PadRight(row, n, fill) == row \o Repeat(n - Len(row), fill)

Truthy(opt) == opt /= None /\ opt[1] /= 0

\* Shape.normalise(width, height, fill)
normalise(c, width, height, fill) ==
    IF width /= None /\ width[1] < Width(c) THEN Raised(c, "ShapeError")
    ELSE IF height /= None /\ height[1] < Height(c) THEN Raised(c, "ShapeError")
    ELSE IF width = None /\ height = None THEN Done(c)
    ELSE LET c1 == IF c = <<>> THEN << <<>> >> ELSE c
             c2 == IF Truthy(width)
                   THEN [i \in 1 .. Len(c1) |-> PadRight(c1[i], width[1], fill)]
                   ELSE c1
             w  == IF Truthy(width) THEN width[1] ELSE Width(c2)
             c3 == IF Truthy(height)
                   THEN c2 \o Repeat(height[1] - Len(c2), Repeat(w, fill))
                   ELSE c2
         IN  Done(c3)

\* while len(l) > n: l.pop(0 or -1), for n >= 0
PopTo(l, n, front) ==
    IF Len(l) <= n THEN l
    ELSE IF front THEN SubSeq(l, Len(l) - n + 1, Len(l))
    ELSE SubSeq(l, 1, n)

\* trim popping from the other end of each row and of the canvas.
trim_other_end(c, width, height, trim_left, trim_top) ==
    LET c1 == IF width = None THEN c
              ELSE [i \in 1 .. Len(c) |-> PopTo(c[i], width[1], ~trim_left)]
    IN  Done(IF height = None THEN c1 ELSE PopTo(c1, height[1], ~trim_top))

\* Shape.trim(width, height, trim_left, trim_top).  Below zero the loop
\* pops its list empty and the next pop raises.
trim(c, width, height, trim_left, trim_top) ==
    IF width /= None /\ width[1] < 0 /\ c /= <<>>
    THEN Raised([c EXCEPT ![1] = <<>>], "IndexError")
    ELSE LET c1 == IF width = None THEN c
                   ELSE [i \in 1 .. Len(c) |-> PopTo(c[i], width[1], trim_left)]
         IN  IF height /= None /\ height[1] < 0
             THEN Raised(<<>>, "IndexError")
             ELSE Done(IF height = None THEN c1
                       ELSE PopTo(c1, height[1], trim_top))

\* Shape.__iter__: every stored cell, row by row, as <<Coord, glyph>>.
RECURSIVE CellsFrom(_, _)
CellsFrom(c, r) ==
    IF r > Len(c) THEN <<>>
    ELSE [x \in 1 .. Len(c[r]) |-> << <<x - 1, r - 1>>, c[r][x] >>]
         \o CellsFrom(c, r + 1)

Shape_iter(c) == CellsFrom(c, 1)

\* The loop of draw_on, from the i-th cell of the drawn shape on.
RECURSIVE DrawCells(_, _, _, _, _, _)
DrawCells(cells, i, c, offset, check_conflict, conflict_error) ==
    IF i > Len(cells) THEN Done(c)
    ELSE LET nxy  == CoordAdd(cells[i][1], offset)
             char == cells[i][2]
             old  == IF check_conflict THEN Shape_getitem(c, nxy)
                     ELSE [glyph |-> NoneGlyph, err |-> ""]
         IN  IF old.err /= "" THEN Raised(c, old.err)
             ELSE IF check_conflict /\ old.glyph /= NoneGlyph
             THEN IF conflict_error THEN Raised(c, "ShapeError")
                  ELSE DrawCells(cells, i + 1, c, offset,
                                 check_conflict, conflict_error)
             ELSE LET w == Shape_setitem(c, nxy, char) IN
                  IF w.err /= "" THEN w
                  ELSE DrawCells(cells, i + 1, w.canvas, offset,
                                 check_conflict, conflict_error)

\* Shape.draw_on(shape, offset, check_conflict, conflict_error)
draw_on(c, shape, offset, check_conflict, conflict_error) ==
    IF ~SizeLeq(CoordAdd(offset, Size(shape)), Size(c))
    THEN Raised(c, "AssertionError")
    ELSE DrawCells(Shape_iter(shape), 1, c, offset, check_conflict, conflict_error)

\* coord.RectangleIterator(start, stop): the cells from start up to, not
\* including, stop.
RectangleIterator(a, b) == (a[1] .. b[1] - 1) \X (a[2] .. b[2] - 1)

\* Shape.section(section_start, section_stop): the new Shape returned.
section(c, section_start, section_stop) ==
    LET stop  == IF section_stop = None THEN section_start ELSE section_stop
        begin == IF section_stop = None THEN <<0, 0>> ELSE section_start
    IN  IF ~CoordLess(begin, stop) THEN Raised(<<>>, "AssertionError")
        ELSE IF \E xy \in RectangleIterator(begin, stop) :
                    Shape_getitem(c, xy).err /= ""
        THEN Raised(<<>>, "IndexError")
        ELSE Done([r \in 1 .. stop[2] - begin[2] |->
                     [x \in 1 .. stop[1] - begin[1] |->
                        Shape_getitem(c, <<begin[1] + x - 1,
                                           begin[2] + r - 1>>).glyph]])

\* ShapeCollection (library/collection.py, which src/ lacks): a list of
\* [shape, offset] entries.  Its size is the bounding box of its entries.
RECURSIVE Collection_width(_)
Collection_width(coll) ==
    IF coll = <<>> THEN 0
    ELSE Max(Head(coll).offset[1] + Width(Head(coll).shape),
             Collection_width(Tail(coll)))

RECURSIVE Collection_height(_)
Collection_height(coll) ==
    IF coll = <<>> THEN 0
    ELSE Max(Head(coll).offset[2] + Height(Head(coll).shape),
             Collection_height(Tail(coll)))

ShapeCoord(shape, offset) == [shape |-> shape, offset |-> offset]

\* ShapeCollection.combine: each entry drawn in list order on a fresh
\* canvas, a later entry overwriting an earlier one.
RECURSIVE DrawAll(_, _, _)
DrawAll(coll, i, c) ==
    IF i > Len(coll) THEN Done(c)
    ELSE LET d == draw_on(c, coll[i].shape, coll[i].offset, FALSE, FALSE) IN
         IF d.err /= "" THEN d ELSE DrawAll(coll, i + 1, d.canvas)

Combine(coll) ==
    DrawAll(coll, 1, Shape(Collection_width(coll), Collection_height(coll),
                           NoneGlyph))

\* What adjoin and underneath return: a canvas, or a collection.
Canvas(d) == [canvas |-> d.canvas, err |-> d.err, coll |-> <<>>, collected |-> FALSE]

Collected(coll) == [canvas |-> <<>>, err |-> "", coll |-> coll, collected |-> TRUE]

\* adjoin(shape1, shape2, overlap, top_offset, fill, join_left,
\*        skip_conflicts, collect, offset_both), for two plain Shapes.
\* first_offset is bound only under offset_both.
adjoin(shape1, shape2, overlap, top_offset, fill, join_left, skip_conflicts, collect, offset_both) ==
    LET s1 == IF join_left THEN shape2 ELSE shape1
        s2 == IF join_left THEN shape1 ELSE shape2
        new_canvas == Shape(Width(s1) + Width(s2) - overlap,
                            Max(Height(s1), Height(s2)), fill)
        second == <<Width(s1) - overlap, top_offset>>
    IN  IF collect
        THEN Collected(<< ShapeCoord(s1, <<Max(Collection_width(<<>>), 0),
                                           IF offset_both THEN top_offset ELSE 0>>),
                          ShapeCoord(s2, second) >>)
        ELSE IF ~offset_both THEN Canvas(Raised(<<>>, "UnboundLocalError"))
        ELSE LET d1 == draw_on(new_canvas, s1, <<0, top_offset>>,
                               skip_conflicts, FALSE)
             IN  IF d1.err /= "" THEN Canvas(Raised(<<>>, d1.err))
                 ELSE LET d2 == draw_on(d1.canvas, s2, second,
                                        skip_conflicts, FALSE)
                      IN  IF d2.err /= "" THEN Canvas(Raised(<<>>, d2.err))
                          ELSE Canvas(d2)

\* underneath sizing its canvas without taking the overlap off.
underneath_keeps_overlap(shape1, shape2, left_offset, overlap, fill, join_top, skip_conflicts, offset_first, offset_second, collect) ==
    LET s1 == IF join_top THEN shape2 ELSE shape1
        s2 == IF join_top THEN shape1 ELSE shape2
        new_canvas == Shape(Max(Width(s1) + left_offset, Width(s2) + left_offset),
                            Height(s1) + Height(s2), fill)
        shape1_offset == <<IF offset_first THEN left_offset ELSE 0, 0>>
        shape2_offset == <<IF offset_second THEN left_offset ELSE 0,
                           Height(s1) - overlap>>
    IN  IF collect
        THEN Collected(<< ShapeCoord(s1, shape1_offset),
                          ShapeCoord(s2, shape2_offset) >>)
        ELSE LET d1 == draw_on(new_canvas, s1, shape1_offset, TRUE, FALSE) IN
             IF d1.err /= "" THEN Canvas(Raised(<<>>, d1.err))
             ELSE LET d2 == draw_on(d1.canvas, s2, shape2_offset,
                                    skip_conflicts, FALSE)
                  IN  IF d2.err /= "" THEN Canvas(Raised(<<>>, d2.err))
                      ELSE Canvas(d2)

\* underneath(shape1, shape2, left_offset, overlap, fill, join_top,
\*            skip_conflicts, offset_first, offset_second, collect), for two
\* plain Shapes.
underneath(shape1, shape2, left_offset, overlap, fill, join_top, skip_conflicts, offset_first, offset_second, collect) ==
    LET s1 == IF join_top THEN shape2 ELSE shape1
        s2 == IF join_top THEN shape1 ELSE shape2
        new_canvas == Shape(Max(Width(s1) + left_offset, Width(s2) + left_offset),
                            Height(s1) + Height(s2) - overlap, fill)
        shape1_offset == <<IF offset_first THEN left_offset ELSE 0, 0>>
        shape2_offset == <<IF offset_second THEN left_offset ELSE 0,
                           Height(s1) - overlap>>
    IN  IF collect
        THEN Collected(<< ShapeCoord(s1, shape1_offset),
                          ShapeCoord(s2, shape2_offset) >>)
        ELSE LET d1 == draw_on(new_canvas, s1, shape1_offset, TRUE, FALSE) IN
             IF d1.err /= "" THEN Canvas(Raised(<<>>, d1.err))
             ELSE LET d2 == draw_on(d1.canvas, s2, shape2_offset,
                                    skip_conflicts, FALSE)
                  IN  IF d2.err /= "" THEN Canvas(Raised(<<>>, d2.err))
                      ELSE Canvas(d2)

\* The two kinds of argument of a composition function: a plain Shape, or
\* a ShapeCollection with its entries.
PlainShape(c) == [tag |-> "Shape", canvas |-> c, coll |-> <<>>]

ShapeCollection(entries) == [tag |-> "ShapeCollection", canvas |-> <<>>, coll |-> entries]

IsCollection(s) == s.tag = "ShapeCollection"

\* shape.width() and shape.height() of either kind of argument.
WidthOf(s) == IF IsCollection(s) THEN Collection_width(s.coll) ELSE Width(s.canvas)

HeightOf(s) == IF IsCollection(s) THEN Collection_height(s.coll) ELSE Height(s.canvas)

\* collection.ShapeCoord(shape, coord) of a plain Shape argument.
EntryOf(s, offset) == ShapeCoord(s.canvas, offset)

\* ShapeCollection.offset(offset), called as a statement for its effect:
\* every entry of the collection itself is moved by offset.
Collection_offset(coll, offset) ==
    [i \in 1 .. Len(coll) |-> ShapeCoord(coll[i].shape, CoordAdd(coll[i].offset, offset))]

\* The collect branch of adjoin and underneath: shape1 copied or wrapped,
\* then shape2 offset and extended from, or wrapped and appended.  The
\* value is the collection returned and the second argument afterwards.
Collect(shape1, shape2, shape1_offset, shape2_offset) ==
    LET first == IF IsCollection(shape1) THEN shape1.coll
                 ELSE << EntryOf(shape1, shape1_offset) >>
        moved == IF IsCollection(shape2)
                 THEN ShapeCollection(Collection_offset(shape2.coll, shape2_offset))
                 ELSE shape2
    IN  [returned |-> first \o (IF IsCollection(shape2) THEN moved.coll
                                ELSE << EntryOf(shape2, shape2_offset) >>),
         shape2 |-> moved]

\* The caller's two arguments after a call, and what the call returned.
AfterCall(r, shape1, shape2) == [res |-> r, shape1 |-> shape1, shape2 |-> shape2]

\* adjoin for any two arguments: a collection among them turns collect on.
adjoin_any(shape1, shape2, overlap, top_offset, fill, join_left, skip_conflicts, collect, offset_both) ==
    LET s1 == IF join_left THEN shape2 ELSE shape1
        s2 == IF join_left THEN shape1 ELSE shape2
    IN  IF ~IsCollection(shape1) /\ ~IsCollection(shape2)
        THEN AfterCall(adjoin(shape1.canvas, shape2.canvas, overlap, top_offset,
                             fill, join_left, skip_conflicts, collect, offset_both),
                      shape1, shape2)
        ELSE LET c == Collect(s1, s2,
                              <<Max(Collection_width(<<>>), 0),
                                IF offset_both THEN top_offset ELSE 0>>,
                              IF IsCollection(s2) /\ WidthOf(s1) < 0 THEN <<0, 0>>
                              ELSE <<WidthOf(s1) - overlap, top_offset>>)
             IN  AfterCall(Collected(c.returned),
                          IF join_left THEN c.shape2 ELSE shape1,
                          IF join_left THEN shape2 ELSE c.shape2)

\* underneath for any two arguments.
underneath_any(shape1, shape2, left_offset, overlap, fill, join_top, skip_conflicts, offset_first, offset_second, collect) ==
    LET s1 == IF join_top THEN shape2 ELSE shape1
        s2 == IF join_top THEN shape1 ELSE shape2
    IN  IF ~IsCollection(shape1) /\ ~IsCollection(shape2)
        THEN AfterCall(underneath(shape1.canvas, shape2.canvas, left_offset, overlap,
                                 fill, join_top, skip_conflicts, offset_first,
                                 offset_second, collect),
                      shape1, shape2)
        ELSE LET c == Collect(s1, s2,
                              <<IF offset_first THEN left_offset ELSE 0, 0>>,
                              <<IF offset_second THEN left_offset ELSE 0,
                                HeightOf(s1) - overlap>>)
             IN  AfterCall(Collected(c.returned),
                          IF join_top THEN c.shape2 ELSE shape1,
                          IF join_top THEN shape2 ELSE c.shape2)

\* atop: underneath with join_top = not join_bottom.
atop_any(shape1, shape2, left_offset, overlap, fill, join_bottom, skip_conflicts, offset_first, offset_second, collect) ==
    underneath_any(shape1, shape2, left_offset, overlap, fill, ~join_bottom,
                   skip_conflicts, offset_first, offset_second, collect)


----------------------------------------------------------------------------
(* Indexed containers: Grid with its assertions, AutoShape, Box and the    *)
(* column and row views of a Shape.                                        *)

\* A Grid object: _width, _height and the rows of grid.
GridObject(size, value) ==
    [width |-> size[1], height |-> size[2], grid |-> Grid(size, value)]

\* Grid.__getvalue__(pos): both asserts test the upper bound alone, then
\* the nested lists are indexed as Python indexes a list.
Grid__getvalue__(g, pos) ==
    IF ~(pos[2] < g.height) \/ ~(pos[1] < g.width)
    THEN [value |-> None, err |-> "AssertionError"]
    ELSE LET r == PyIndex(g.height, pos[2])
             x == PyIndex(g.width, pos[1])
         IN  IF r = 0 \/ x = 0 THEN [value |-> None, err |-> "IndexError"]
             ELSE [value |-> g.grid[<<x - 1, r - 1>>], err |-> ""]

\* Grid.__setvalue__(pos, value)
Grid__setvalue__(g, pos, value) ==
    IF ~(pos[2] < g.height) \/ ~(pos[1] < g.width)
    THEN [grid |-> g, err |-> "AssertionError"]
    ELSE LET r == PyIndex(g.height, pos[2])
             x == PyIndex(g.width, pos[1])
         IN  IF r = 0 \/ x = 0 THEN [grid |-> g, err |-> "IndexError"]
             ELSE [grid |-> [g EXCEPT !.grid[<<x - 1, r - 1>>] = value],
                   err |-> ""]

\* Growth that pads with the empty value whatever the AutoShape's fill is.
AutoShape_grow_unfilled(c, fill, item) ==
    LET d1 == IF item[1] >= Width(c)
              THEN normalise(c, <<item[1] + 1>>, None, NoneGlyph) ELSE Done(c)
    IN  IF d1.err /= "" THEN d1
        ELSE IF item[2] >= Height(d1.canvas)
        THEN normalise(d1.canvas, None, <<item[2] + 1>>, NoneGlyph)
        ELSE d1

\* The growth both AutoShape.__getitem__ and AutoShape.__setitem__ start
\* with: normalise to item.x + 1 wide, then to item.y + 1 high.
AutoShape_grow(c, fill, item) ==
    LET d1 == IF item[1] >= Width(c)
              THEN normalise(c, <<item[1] + 1>>, None, fill) ELSE Done(c)
    IN  IF d1.err /= "" THEN d1
        ELSE IF item[2] >= Height(d1.canvas)
        THEN normalise(d1.canvas, None, <<item[2] + 1>>, fill)
        ELSE d1

\* AutoShape.__getitem__(Coord)
AutoShape_getitem(c, fill, item) ==
    LET d == AutoShape_grow(c, fill, item) IN
    IF d.err /= "" THEN [canvas |-> d.canvas, glyph |-> NoneGlyph, err |-> d.err]
    ELSE LET g == Shape_getitem(d.canvas, item)
         IN  [canvas |-> d.canvas, glyph |-> g.glyph, err |-> g.err]

\* AutoShape.__setitem__(Coord, value)
AutoShape_setitem(c, fill, item, value) ==
    LET d == AutoShape_grow(c, fill, item) IN
    IF d.err /= "" THEN d ELSE Shape_setitem(d.canvas, item, value)

\* Box.perimeter: the coordinates yielded, in order, for a box whose size()
\* is (w, h): the top rows, the two sides, the bottom rows.
perimeter(w, h, border) ==
    IF border < 1 THEN <<>>
    ELSE LET inner == Max(h - 2 * border, 0)
             top == [k \in 1 .. w * border |->
                       <<(k - 1) \div border, (k - 1) % border>>]
             sides == [k \in 1 .. 2 * border * inner |->
                         LET p == (k - 1) \div 2
                             x == p \div inner
                             y == border + (p % inner)
                         IN  IF (k - 1) % 2 = 0 THEN <<x, y>>
                             ELSE <<w - x - 1, y>>]
             bottom == [k \in 1 .. w * border |->
                          <<(k - 1) \div border,
                            h - border + ((k - 1) % border)>>]
         IN  top \o sides \o bottom

\* The loop of Box.__init__: self[c] = border_fill for c in perimeter().
RECURSIVE Stamp(_, _, _, _)
Stamp(cs, i, c, border_fill) ==
    IF i > Len(cs) THEN Done(c)
    ELSE LET d == Shape_setitem(c, cs[i], border_fill)
         IN  IF d.err /= "" THEN Raised(<<>>, d.err)
             ELSE Stamp(cs, i + 1, d.canvas, border_fill)

\* Box(width, height, border, fill, border_fill)
Box(width, height, border, fill, border_fill) ==
    LET c == Shape(width, height, fill)
    IN  Stamp(perimeter(Width(c), Height(c), border), 1, c, border_fill)

\* Shape.column(column) and Shape.row(row): a view keeps its index and
\* refers to the Shape it was made from.
ShapeColumn(column) == [axis |-> "column", index |-> column]

ShapeRow(row) == [axis |-> "row", index |-> row]

\* The coordinate view[i] stands for: _canvas[row][column].
ViewCoord(view, i) ==
    IF view.axis = "column" THEN <<view.index, i>> ELSE <<i, view.index>>

\* ShapeColumn.__getitem__ / ShapeRow.__getitem__ on the parent's canvas.
View_getitem(c, view, i) == Shape_getitem(c, ViewCoord(view, i))

\* A view whose writes go to a copy of the parent's cells, not the parent.
View_setitem_copy(c, view, i, value) ==
    IF Shape_getitem(c, ViewCoord(view, i)).err /= ""
    THEN Raised(c, "IndexError") ELSE Done(c)

\* ShapeColumn.__setitem__ / ShapeRow.__setitem__ on the parent's canvas.
View_setitem(c, view, i, value) == Shape_setitem(c, ViewCoord(view, i), value)

\* What iterating a view gave: the pairs yielded, and the exception that
\* ended the iteration if one did.
Yielded(pairs, e) == [yielded |-> pairs, err |-> e]

\* ShapeColumn.__iter__: a generator over range(self.height()), reading
\* _canvas[i][column]; a row too short for the column ends it.
RECURSIVE ShapeColumn_iter(_, _, _)
ShapeColumn_iter(c, column, i) ==
    IF i >= Height(c) THEN Yielded(<<>>, "")
    ELSE LET g == Shape_getitem(c, <<column, i>>) IN
         IF PyIndex(Len(c[i + 1]), column) = 0 THEN Yielded(<<>>, "IndexError")
         ELSE LET rest == ShapeColumn_iter(c, column, i + 1) IN
              Yielded(<< <<(<<column, i>>), g.glyph>> >> \o rest.yielded, rest.err)

\* ShapeRow.__iter__: its loop body is a return, so the method hands back
\* the first pair, or None for an empty row, where iter() wants an
\* iterator.
ShapeRow_iter(c, row) ==
    IF PyIndex(Len(c), row) = 0 THEN Yielded(<<>>, "IndexError")
    ELSE Yielded(<<>>, "TypeError")

\* iter(view) run to its end.
View_iter(c, view) ==
    IF view.axis = "column" THEN ShapeColumn_iter(c, view.index, 0)
    ELSE ShapeRow_iter(c, view.index)

----------------------------------------------------------------------------
(* The state machines.  PathSpec drives one Pathfind object through calls  *)
(* of its public methods; ShapeSpec applies one Shape operation, or        *)
(* normalise and then trim, to a Shape built from a list of rows.          *)

\* The Shape variables while a Pathfind is driven.
NoOp == [name |-> "none", shape |-> <<>>, a |-> <<>>, b |-> <<>>,
         fill |-> NoneGlyph, flags |-> <<>>]

NoResult == [canvas |-> <<>>, err |-> "", coll |-> <<>>, collected |-> FALSE,
             glyph |-> NoneGlyph]

NoShape ==
    /\ canvas = <<>>
    /\ built = <<>>
    /\ op = NoOp
    /\ prev = NoOp
    /\ res = NoResult
    /\ phase = "none"

\* The variables of an indexed container while none is indexed.
NoCell ==
    /\ kind = "none"
    /\ self_fill = NoneGlyph
    /\ before = <<>>
    /\ grid = [width |-> 0, height |-> 0, grid |-> <<>>]
    /\ views = <<>>
    /\ calls = 0

\* The arguments of a composition function while none is called.
NoJoin ==
    /\ arg1 = <<>>
    /\ arg2 = <<>>

\* The builder's variables while it is not run.
NoManor ==
    /\ style = "none"
    /\ row1 = <<>>
    /\ row2 = <<>>
    /\ left = 0
    /\ right = 0
    /\ adjust_bottom = None
    /\ join_overlap = None
    /\ step = "none"
    /\ failure = ""

\* The Pathfind variables while a Shape is operated on.
NoPathfind ==
    /\ fgrid = [size |-> <<0, 0>>, open |-> {}]
    /\ start = None
    /\ target = None
    /\ given_target = None
    /\ target_condition = [some |-> FALSE, at |-> {}]
    /\ check_pos_condition = [some |-> FALSE, at |-> {}]
    /\ dirs = <<>>
    /\ dgrid = <<>>
    /\ pgrid = <<>>
    /\ nlist = <<>>
    /\ pc = "none"
    /\ method = "none"
    /\ steps = 0
    /\ popped = <<>>
    /\ hist = <<>>

\* What a completed call returned.  exists: path_exists' value, or for
\* get_path that the result is not None; path: get_path's list.
Returned(m, ex, p, n, seeded) ==
    [method |-> m, exists |-> ex, path |-> p, steps |-> n, searched |-> seeded]

\* Pathfind.__init__: the conditions the constructor asserts.
PathInit ==
    /\ \E w \in 1 .. MaxW, h \in 1 .. MaxH :
         /\ w * h <= MaxCells
         /\ \E open \in SUBSET Cells(<<w, h>>) :
               fgrid = [size |-> <<w, h>>, open |-> open]
    /\ start \in Cells(fgrid.size)
    /\ target \in Cells(fgrid.size) \cup {None}
    /\ given_target = target
    /\ target_condition \in
         {[some |-> FALSE, at |-> {}]} \cup
         {[some |-> TRUE, at |-> {c \in Cells(fgrid.size) : c[1] = x}] :
            x \in 0 .. fgrid.size[1] - 1}
    /\ target /= None \/ target_condition.some
    /\ check_pos_condition \in
         {[some |-> FALSE, at |-> {}]} \cup
         {[some |-> TRUE, at |-> {c \in Cells(fgrid.size) : c[1] /= x}] :
            x \in 0 .. fgrid.size[1] - 1}
    /\ dirs \in AdjacencyOrders
    /\ dgrid = Grid(fgrid.size, INFINITY)
    /\ pgrid = Grid(fgrid.size, None)
    /\ nlist = <<>>
    /\ pc = "idle"
    /\ method = "none"
    /\ steps = 0
    /\ popped = <<>>
    /\ hist = <<>>
    /\ NoShape
    /\ NoCell
    /\ NoJoin
    /\ NoManor

\* path_exists() or get_path() when start == target: no search is run.
CallTrivial(m) ==
    /\ pc = "idle"
    /\ Len(hist) < MaxCalls
    /\ start = target
    /\ hist' = Append(hist, Returned(m, TRUE,
                  IF m = "get_path" THEN <<start>> ELSE <<>>, 0, FALSE))
    /\ method' = m
    /\ steps' = 0
    /\ popped' = <<>>
    /\ UNCHANGED <<fgrid, start, target, given_target, target_condition, check_pos_condition,
                   dirs, dgrid, pgrid, nlist, pc>>
    /\ UNCHANGED <<shapeVars, cellVars, joinVars, manorVars>>

\* The search entered without the start == target test before it.
CallSearchUnguarded(m) ==
    /\ pc = "idle"
    /\ Len(hist) < MaxCalls
    /\ nlist' = <<start>>
    /\ dgrid' = Grid_setvalue(dgrid, start, 0)
    /\ pc' = "pathfind"
    /\ method' = m
    /\ steps' = 0
    /\ popped' = <<>>
    /\ UNCHANGED <<fgrid, start, target, given_target, target_condition,
                   check_pos_condition, dirs, pgrid, hist>>
    /\ UNCHANGED <<shapeVars, cellVars, joinVars, manorVars>>

\* path_exists() or get_path() entering pathfind(): the frontier is seeded.
CallSearch(m) ==
    /\ pc = "idle"
    /\ Len(hist) < MaxCalls
    /\ start /= target
    /\ nlist' = <<start>>
    /\ dgrid' = Grid_setvalue(dgrid, start, 0)
    /\ pc' = "pathfind"
    /\ method' = m
    /\ steps' = 0
    /\ popped' = <<>>
    /\ UNCHANGED <<fgrid, start, target, given_target, target_condition, check_pos_condition,
                   dirs, pgrid, hist>>
    /\ UNCHANGED <<shapeVars, cellVars, joinVars, manorVars>>

\* One turn of pathfind's while loop; on success the caller's return.  A
\* get_path() whose backtrack would never reach None stays in "backtrack".
Expand ==
    /\ pc = "pathfind"
    /\ Len(nlist) > 0
    /\ LET curr == nlist[1]
           st == add_neighbours(curr,
                    [dgrid |-> dgrid, pgrid |-> pgrid,
                     nlist |-> Remove(nlist, curr), target |-> target,
                     found |-> FALSE])
       IN /\ dgrid' = st.dgrid
          /\ pgrid' = st.pgrid
          /\ target' = st.target
          /\ steps' = steps + 1
          /\ popped' = Append(popped, curr)
          /\ IF st.found /\ method = "get_path"
                         /\ ~BacktrackReturns(st.target, st.pgrid)
             THEN /\ nlist' = st.nlist
                  /\ pc' = "backtrack"
                  /\ UNCHANGED hist
             ELSE IF st.found
             THEN /\ nlist' = st.nlist
                  /\ pc' = "idle"
                  /\ hist' = Append(hist, Returned(method, TRUE,
                        IF method = "get_path"
                        THEN backtrack(st.target, st.pgrid) ELSE <<>>,
                        steps + 1, TRUE))
             ELSE /\ nlist' = SortByDist(st.nlist, st.dgrid)
                  /\ UNCHANGED <<pc, hist>>
    /\ UNCHANGED <<fgrid, start, given_target, target_condition, check_pos_condition, dirs,
                   method>>
    /\ UNCHANGED <<shapeVars, cellVars, joinVars, manorVars>>

\* pathfind's loop ends with the frontier empty: None is returned.
Exhausted ==
    /\ pc = "pathfind"
    /\ Len(nlist) = 0
    /\ pc' = "idle"
    /\ hist' = Append(hist, Returned(method, FALSE, <<>>, steps, TRUE))
    /\ UNCHANGED <<fgrid, start, target, given_target, target_condition, check_pos_condition,
                   dirs, dgrid, pgrid, nlist, method, steps, popped>>
    /\ UNCHANGED <<shapeVars, cellVars, joinVars, manorVars>>

PathNext ==
    \/ CallTrivial("path_exists")
    \/ CallTrivial("get_path")
    \/ CallSearch("path_exists")
    \/ CallSearch("get_path")
    \/ Expand
    \/ Exhausted

PathSpec == PathInit /\ [][PathNext]_vars

\* The longest of the short corridors searched beside the long one.
MaxCorridor == 12

\* A Pathfind constructed on a corridor one cell high, every cell
\* passable, start at its first cell, no fixed target and a target
\* predicate that no cell satisfies.  The corridor is a few cells long, or
\* INFINITY + 2 cells.
LongInit ==
    /\ \E n \in (2 .. MaxCorridor) \cup {INFINITY + 2} :
          fgrid = [size |-> <<n, 1>>, open |-> Cells(<<n, 1>>)]
    /\ start = <<0, 0>>
    /\ target = None
    /\ given_target = target
    /\ target_condition = [some |-> TRUE, at |-> {}]
    /\ check_pos_condition = [some |-> FALSE, at |-> {}]
    /\ dirs \in AdjacencyOrders
    /\ dgrid = Grid(fgrid.size, INFINITY)
    /\ pgrid = Grid(fgrid.size, None)
    /\ nlist = <<>>
    /\ pc = "idle"
    /\ method = "none"
    /\ steps = 0
    /\ popped = <<>>
    /\ hist = <<>>
    /\ NoShape
    /\ NoCell
    /\ NoJoin
    /\ NoManor

\* A step of a long search takes Rounds times Batch turns of pathfind's
\* while loop.
Batch == 20

Rounds == 100

\* Turns of pathfind's while loop from st until done, the list of the
\* cells expanded on the way, has n cells or the loop stops.
RECURSIVE pathfind_turns(_, _, _)
pathfind_turns(st, done, n) ==
    IF Len(st.nlist) = 0 \/ Len(done) >= n \/ st.found THEN [st |-> st, popped |-> done]
    ELSE LET curr == st.nlist[1]
             st1 == add_neighbours(curr, [st EXCEPT !.nlist = Remove(@, curr)])
         IN  pathfind_turns(IF st1.found THEN st1
                            ELSE [st1 EXCEPT !.nlist = SortByDist(@, st1.dgrid)],
                            Append(done, curr), n)

\* Batch turns of the loop, k times over.
RECURSIVE pathfind_rounds(_, _)
pathfind_rounds(r, k) == IF k = 0 \/ Len(r.st.nlist) = 0 \/ r.st.found THEN r ELSE pathfind_rounds(pathfind_turns(r.st, r.popped, Len(r.popped) + Batch), k - 1)

\* Rounds times Batch turns of pathfind's while loop, or as many as the
\* loop has left; on success the caller's return, as in Expand.
ExpandTurns ==
    /\ pc = "pathfind"
    /\ Len(nlist) > 0
    /\ LET r == pathfind_rounds([st |-> [dgrid |-> dgrid, pgrid |-> pgrid, nlist |-> nlist,
                                         target |-> target, found |-> FALSE],
                                 popped |-> <<>>], Rounds)
           st == r.st
       IN /\ dgrid' = st.dgrid
          /\ pgrid' = st.pgrid
          /\ target' = st.target
          /\ nlist' = st.nlist
          /\ steps' = steps + Len(r.popped)
          /\ popped' = popped \o r.popped
          /\ IF st.found /\ method = "get_path"
                         /\ ~BacktrackReturns(st.target, st.pgrid)
             THEN /\ pc' = "backtrack"
                  /\ UNCHANGED hist
             ELSE IF st.found
             THEN /\ pc' = "idle"
                  /\ hist' = Append(hist, Returned(method, TRUE,
                        IF method = "get_path"
                        THEN backtrack(st.target, st.pgrid) ELSE <<>>,
                        steps + Len(r.popped), TRUE))
             ELSE UNCHANGED <<pc, hist>>
    /\ UNCHANGED <<fgrid, start, given_target, target_condition, check_pos_condition, dirs,
                   method>>
    /\ UNCHANGED <<shapeVars, cellVars, joinVars, manorVars>>

\* path_exists() on the corridor: the search of PathSpec, Rounds times
\* Batch turns of the loop to a step.
LongNext ==
    \/ CallSearch("path_exists")
    \/ ExpandTurns
    \/ Exhausted

LongSpec == LongInit /\ [][LongNext]_vars

\* The glyphs of the Shape operated on, of a second Shape, and the fills.
AGlyphs == {NoneGlyph, "#"}

BGlyphs == {NoneGlyph, "X"}

Fills == {NoneGlyph, "."}

RowsOf(glyphs, maxc) == UNION {[1 .. n -> glyphs] : n \in 0 .. maxc}

ShapesOf(glyphs, maxr, maxc) ==
    UNION {[1 .. m -> RowsOf(glyphs, maxc)] : m \in 0 .. maxr}

\* Shape(["..#", "..."])
ScenarioA == << <<".", ".", "#">>, <<".", ".", ".">> >>

OptInts(lo, hi) == {None} \cup {<<n>> : n \in lo .. hi}

Op(name, shape, a, b, fill, flags) ==
    [name |-> name, shape |-> shape, a |-> a, b |-> b, fill |-> fill,
     flags |-> flags]

\* The result of a Shape method that returns nothing.
Mutated(d) ==
    [canvas |-> <<>>, err |-> d.err, coll |-> <<>>, collected |-> FALSE,
     glyph |-> NoneGlyph]

\* The result of a function that returns a Shape or a collection.
Built(r) ==
    [canvas |-> r.canvas, err |-> r.err, coll |-> r.coll,
     collected |-> r.collected, glyph |-> NoneGlyph]

\* Shape.__init__(sh_list): the rows are copied, ragged or not.
ShapeInit ==
    /\ built \in ShapesOf(AGlyphs, MaxRows, MaxCols) \cup {ScenarioA}
    /\ canvas = built
    /\ op = NoOp
    /\ prev = NoOp
    /\ res = NoResult
    /\ phase = "new"
    /\ NoPathfind
    /\ NoCell
    /\ NoJoin
    /\ NoManor

Apply(o, c, r, ph) ==
    /\ canvas' = c
    /\ prev' = op
    /\ op' = o
    /\ res' = r
    /\ phase' = ph
    /\ UNCHANGED built
    /\ UNCHANGED <<pathVars, cellVars, joinVars, manorVars>>

DrawOn ==
    /\ phase = "new"
    /\ \E shape \in ShapesOf(BGlyphs, MaxRows, MaxCols),
          offset \in (0 .. MaxCols) \X (0 .. MaxRows),
          check_conflict \in BOOLEAN, conflict_error \in BOOLEAN :
          LET d == draw_on(canvas, shape, offset, check_conflict, conflict_error)
          IN  Apply(Op("draw_on", shape, offset, None, NoneGlyph,
                       <<check_conflict, conflict_error>>),
                    d.canvas, Mutated(d), "done")

Normalise ==
    /\ phase = "new"
    /\ \E width \in OptInts(0, MaxCols + 1), height \in OptInts(0, MaxRows + 1),
          fill \in Fills \cup AGlyphs :
          LET d == normalise(canvas, width, height, fill)
          IN  Apply(Op("normalise", <<>>, width, height, fill, <<>>),
                    d.canvas, Mutated(d),
                    IF d.err = "" THEN "normalised" ELSE "done")

Trim ==
    /\ phase \in {"new", "normalised"}
    /\ \E width \in OptInts(-1, MaxCols + 1), height \in OptInts(-1, MaxRows),
          trim_left \in BOOLEAN, trim_top \in BOOLEAN :
          LET d == trim(canvas, width, height, trim_left, trim_top)
          IN  Apply(Op("trim", <<>>, width, height, NoneGlyph,
                       <<trim_left, trim_top>>),
                    d.canvas, Mutated(d), "done")

Section ==
    /\ phase = "new"
    /\ \E section_start \in (0 .. MaxCols + 1) \X (0 .. MaxRows),
          section_stop \in ((0 .. MaxCols + 1) \X (0 .. MaxRows)) \cup {None} :
          LET d == section(canvas, section_start, section_stop)
          IN  Apply(Op("section", <<>>, section_start, section_stop,
                       NoneGlyph, <<>>),
                    canvas,
                    [Mutated(d) EXCEPT !.canvas = d.canvas], "done")

GetItem ==
    /\ phase = "new"
    /\ \E item \in (-1 .. MaxCols + 1) \X (-1 .. MaxRows) :
          LET g == Shape_getitem(canvas, item)
          IN  Apply(Op("getitem", <<>>, item, None, NoneGlyph, <<>>),
                    canvas,
                    [NoResult EXCEPT !.err = g.err, !.glyph = g.glyph], "done")

Adjoin ==
    /\ phase = "new"
    /\ \E shape2 \in ShapesOf({"X"}, MaxRows, MaxCols),
          overlap \in 0 .. MaxCols, top_offset \in 0 .. MaxOffset,
          fill \in Fills, join_left \in BOOLEAN, skip_conflicts \in BOOLEAN,
          collect \in BOOLEAN, offset_both \in BOOLEAN :
          Apply(Op("adjoin", shape2, <<overlap, top_offset>>, None, fill,
                   <<join_left, skip_conflicts, collect, offset_both>>),
                canvas,
                Built(adjoin(canvas, shape2, overlap, top_offset, fill,
                             join_left, skip_conflicts, collect, offset_both)),
                "done")

Underneath ==
    /\ phase = "new"
    /\ \E shape2 \in ShapesOf({"X"}, MaxRows, MaxCols),
          left_offset \in 0 .. MaxOffset, overlap \in 0 .. MaxRows,
          fill \in Fills, join_top \in BOOLEAN, skip_conflicts \in BOOLEAN,
          offset_first \in BOOLEAN, offset_second \in BOOLEAN,
          collect \in BOOLEAN :
          Apply(Op("underneath", shape2, <<left_offset, overlap>>, None, fill,
                   <<join_top, skip_conflicts, offset_first, offset_second,
                     collect>>),
                canvas,
                Built(underneath(canvas, shape2, left_offset, overlap, fill,
                                 join_top, skip_conflicts, offset_first,
                                 offset_second, collect)),
                "done")

ShapeNext ==
    \/ DrawOn
    \/ Normalise
    \/ Trim
    \/ Section
    \/ GetItem
    \/ Adjoin
    \/ Underneath

ShapeSpec == ShapeInit /\ [][ShapeNext]_vars

\* An indexed container as constructed: a Shape from a list of rows, an
\* AutoShape, a Grid, or a Box still to be constructed.
CellInit ==
    /\ kind \in {"Shape", "AutoShape", "Grid", "Box"}
    /\ built \in IF kind = "Shape" THEN ShapesOf(AGlyphs, MaxRows, MaxCols)
                 ELSE {<<>>}
    /\ canvas = built
    /\ self_fill \in IF kind = "AutoShape" THEN Fills ELSE {NoneGlyph}
    /\ grid \in IF kind = "Grid"
                THEN {GridObject(<<w, h>>, INFINITY) :
                        w \in 0 .. MaxCols, h \in 0 .. MaxRows}
                ELSE {[width |-> 0, height |-> 0, grid |-> <<>>]}
    /\ before = IF kind = "Grid" THEN <<grid>> ELSE canvas
    /\ views = <<>>
    /\ calls = 0
    /\ op = NoOp
    /\ prev = NoOp
    /\ res = NoResult
    /\ phase = "cell"
    /\ NoPathfind
    /\ NoJoin
    /\ NoManor

\* One call on the container: what it leaves and what it returned.  Taking
\* a view is not counted among the calls.
CellApply(o, c, g, r, vs) ==
    /\ vs /= views \/ calls < MaxOps
    /\ calls' = IF vs = views THEN calls + 1 ELSE calls
    /\ before' = IF kind = "Grid" THEN <<grid>> ELSE canvas
    /\ canvas' = c
    /\ grid' = g
    /\ views' = vs
    /\ prev' = op
    /\ op' = o
    /\ res' = r
    /\ UNCHANGED <<kind, self_fill, built, phase>>
    /\ UNCHANGED <<pathVars, joinVars, manorVars>>

Items == (-1 .. MaxCols) \X (-1 .. MaxRows)

\* shape[Coord(x, y)]
GetCell ==
    /\ kind \in {"Shape", "AutoShape"}
    /\ views = <<>>
    /\ \E item \in Items :
          LET g == IF kind = "AutoShape"
                   THEN AutoShape_getitem(canvas, self_fill, item)
                   ELSE [canvas |-> canvas] @@ Shape_getitem(canvas, item)
          IN  CellApply(Op("getitem", <<>>, item, None, NoneGlyph, <<>>),
                        g.canvas, grid,
                        [NoResult EXCEPT !.err = g.err, !.glyph = g.glyph],
                        views)

\* shape[Coord(x, y)] = value
SetCell ==
    /\ kind \in {"Shape", "AutoShape"}
    /\ views = <<>>
    /\ \E item \in Items, value \in {"X"} :
          LET d == IF kind = "AutoShape"
                   THEN AutoShape_setitem(canvas, self_fill, item, value)
                   ELSE Shape_setitem(canvas, item, value)
          IN  CellApply(Op("setitem", <<>>, item, None, value, <<>>),
                        d.canvas, grid, Mutated(d), views)

\* grid.__getvalue__(pos); the value read is kept in res.canvas.
GridGet ==
    /\ kind = "Grid"
    /\ \E pos \in Items :
          LET g == Grid__getvalue__(grid, pos)
          IN  CellApply(Op("getvalue", <<>>, pos, None, NoneGlyph, <<>>),
                        canvas, grid,
                        [NoResult EXCEPT !.err = g.err,
                                         !.canvas = IF g.err = ""
                                                    THEN <<g.value>> ELSE <<>>],
                        views)

\* grid.__setvalue__(pos, value)
GridSet ==
    /\ kind = "Grid"
    /\ \E pos \in Items, value \in {0} :
          LET d == Grid__setvalue__(grid, pos, value)
          IN  CellApply(Op("setvalue", <<>>, pos, <<value>>, NoneGlyph, <<>>),
                        canvas, d.grid, [NoResult EXCEPT !.err = d.err], views)

\* Box(width, height, border, fill, border_fill)
BoxNew ==
    /\ kind = "Box"
    /\ calls = 0
    /\ \E width \in 1 .. MaxBox, height \in 1 .. MaxBox,
          border \in 0 .. MaxBorder, fill \in Fills, border_fill \in AGlyphs :
          LET d == Box(width, height, border, fill, border_fill)
          IN  CellApply(Op("Box", <<>>, <<width, height>>, <<border>>, fill,
                           <<border_fill>>),
                        d.canvas, grid, Mutated(d), views)

CellNext ==
    \/ GetCell
    \/ SetCell
    \/ GridGet
    \/ GridSet
    \/ BoxNew

CellSpec == CellInit /\ [][CellNext]_vars

\* A Shape whose column and row views are taken and used.
ViewInit ==
    /\ CellInit
    /\ kind = "Shape"

\* shape[x], that is shape.column(x)
ColumnView ==
    /\ Len(views) < MaxViews
    /\ \E column \in 0 .. MaxCols - 1 :
          CellApply(Op("column", <<>>, <<column>>, None, NoneGlyph, <<>>),
                    canvas, grid, NoResult, Append(views, ShapeColumn(column)))

\* shape.row(y)
RowView ==
    /\ Len(views) < MaxViews
    /\ \E row \in 0 .. MaxRows - 1 :
          CellApply(Op("row", <<>>, <<row>>, None, NoneGlyph, <<>>),
                    canvas, grid, NoResult, Append(views, ShapeRow(row)))

ViewIndexes == -1 .. Max(MaxCols, MaxRows)

\* view[i], for a view created earlier
ViewGet ==
    \E v \in 1 .. Len(views), i \in ViewIndexes :
        LET g == View_getitem(canvas, views[v], i)
        IN  CellApply(Op("view_getitem", <<>>, ViewCoord(views[v], i), <<v>>,
                         NoneGlyph, <<>>),
                      canvas, grid,
                      [NoResult EXCEPT !.err = g.err, !.glyph = g.glyph], views)

\* view[i] = value, for a view created earlier
ViewSet ==
    \E v \in 1 .. Len(views), i \in ViewIndexes, value \in {"X"} :
        LET d == View_setitem(canvas, views[v], i, value)
        IN  CellApply(Op("view_setitem", <<>>, ViewCoord(views[v], i), <<v>>,
                         value, <<>>),
                      d.canvas, grid, Mutated(d), views)

\* for pair in view, for a view created earlier
ViewIter ==
    \E v \in 1 .. Len(views) :
        LET y == View_iter(canvas, views[v])
        IN  CellApply(Op("view_iter", <<>>, None, <<v>>, NoneGlyph, <<>>),
                      canvas, grid,
                      [canvas |-> <<>>, err |-> y.err, coll |-> <<>>,
                       collected |-> FALSE, glyph |-> NoneGlyph,
                       yielded |-> y.yielded],
                      views)

ViewNext ==
    \/ ColumnView
    \/ RowView
    \/ ViewGet
    \/ ViewSet
    \/ ViewIter

ViewSpec == ViewInit /\ [][ViewNext]_vars

----------------------------------------------------------------------------
(* The manor builder (builder/manor.py).                                   *)

ONE_CORRIDOR == "one-corridor"

L_CORRIDOR == "l-corridor"

Z_CORRIDOR == "z-corridor"

\* Room(): the defaults of Room.__init__.  serial numbers the rooms in
\* the order builder creates them; the entrance hall is room 0.
Room(serial) ==
    [width |-> DefaultRoomWidth, height |-> DefaultRoomHeight,
     serial |-> serial]

\* list.insert(i, x): before position i, a negative i counted from the
\* end, both clamped to the list.
PyInsert(s, i, x) ==
    LET n == Len(s)
        k == IF i < 0 THEN Max(n + i, 0) ELSE IF i > n THEN n ELSE i
    IN  SubSeq(s, 1, k) \o <<x>> \o SubSeq(s, k + 1, n)

\* row[i].width += 2 and row[i].height += 2, i as Python indexes a list.
Widen(row, i) == [row EXCEPT ![PyIndex(Len(row), i)].width = @ + 2]

\* A heightening that widens the room as well.
Heighten_wide(row, i) == [row EXCEPT ![PyIndex(Len(row), i)].height = @ + 2, ![PyIndex(Len(row), i)].width = @ + 2]

Heighten(row, i) == [row EXCEPT ![PyIndex(Len(row), i)].height = @ + 2]

\* The sum of the widths of a row's rooms.
RECURSIVE SumWidths(_)
SumWidths(row) == IF row = <<>> THEN 0 ELSE Head(row).width + SumWidths(Tail(row))

\* The width of the row drawn by adjoining its rooms from left to right
\* with overlap=1: adjoin's new_size.width, shape1.width() +
\* shape2.width() - overlap, taken over the chain of calls.
RECURSIVE RowWidth(_)
RowWidth(row) == IF Len(row) = 1 THEN row[1].width ELSE RowWidth(SubSeq(row, 1, Len(row) - 1)) + row[Len(row)].width - 1

\* top_offset as builder sets it.
builder_top_offset == 2

\* offset_both: the first two rooms of the bottom row are equally high.
builder_offset_both(row) == row[1].height = row[2].height

\* The vertical offset builder passes to adjoin for room i of the bottom
\* row, and adjoin stores with the room: the first room gets top_offset
\* if offset_both and 0 otherwise, the second top_offset, and a later room
\* 0 if it is as high as the first while offset_both is unset, or higher
\* than the first, and top_offset otherwise.
BottomOffset(row, i) == IF i = 1 THEN (IF builder_offset_both(row) THEN builder_top_offset ELSE 0) ELSE IF i = 2 THEN builder_top_offset ELSE IF (row[i].height = row[1].height /\ ~builder_offset_both(row)) \/ row[i].height > row[1].height THEN 0 ELSE builder_top_offset

\* The vertical offset of a room of the top row: adjoin's default.
TopOffset(row, i) == 0

\* The overlap a strategy that heightens an end room of each row gets set
\* to 1 rather than left at 3.
OverlapFor_mixed(adjust) == IF adjust = 1 THEN 1 ELSE 3

\* The overlap the edge-adjustment step fixes for the strategy drawn.
OverlapFor(adjust) == IF adjust = 2 THEN 1 ELSE 3

\* builder(style) up to the growth loop.
ManorInit ==
    /\ style \in {ONE_CORRIDOR, L_CORRIDOR, Z_CORRIDOR}
    /\ row1 = <<>>
    /\ row2 = IF style = ONE_CORRIDOR THEN <<Room(0)>> ELSE <<>>
    /\ left = 0
    /\ right = 0
    /\ adjust_bottom = None
    /\ join_overlap = None
    /\ step = IF style = ONE_CORRIDOR THEN "grow" ELSE "unsupported"
    /\ failure = ""
    /\ NoPathfind
    /\ NoShape
    /\ NoCell
    /\ NoJoin

\* One turn of the loop that grows the bottom row.
Grow ==
    /\ step = "grow"
    /\ Len(row2) <= 5
    /\ \E stop \in 1 .. 4, side \in -1 .. 0 :
          IF Len(row2) > 4 /\ stop = 1
          THEN /\ step' = "top"
               /\ UNCHANGED <<row2, left, right>>
          ELSE LET new_room == Room(Len(row2)) IN
               /\ UNCHANGED step
               /\ IF left > right
                  THEN /\ row2' = Append(row2, new_room)
                       /\ right' = right + 1
                       /\ UNCHANGED left
                  ELSE IF left < right
                  THEN /\ row2' = PyInsert(row2, 0, new_room)
                       /\ left' = left + 1
                       /\ UNCHANGED right
                  ELSE /\ right' = IF side = -1 THEN right + 1 ELSE right
                       /\ left' = IF side = -1 THEN left ELSE left + 1
                       /\ row2' = PyInsert(row2, side, new_room)
    /\ UNCHANGED <<style, row1, adjust_bottom, join_overlap, failure>>
    /\ UNCHANGED <<pathVars, shapeVars, cellVars, joinVars>>

\* The growth loop's condition fails: the bottom row has six rooms.
GrowDone ==
    /\ step = "grow"
    /\ Len(row2) > 5
    /\ step' = "top"
    /\ UNCHANGED <<style, row1, row2, left, right, adjust_bottom, join_overlap, failure>>
    /\ UNCHANGED <<pathVars, shapeVars, cellVars, joinVars>>

\* One turn of the loop that fills the top row, or its exit.
TopRow ==
    /\ step = "top"
    /\ IF Len(row1) < Len(row2)
       THEN /\ row1' = Append(row1, Room(Len(row2) + Len(row1)))
            /\ UNCHANGED step
       ELSE /\ step' = "adjust"
            /\ UNCHANGED row1
    /\ UNCHANGED <<style, row2, left, right, adjust_bottom, join_overlap, failure>>
    /\ UNCHANGED <<pathVars, shapeVars, cellVars, joinVars>>

\* The edge-adjustment step: a strategy is drawn, the end rooms resized
\* and the overlap of the final join fixed.
Adjust ==
    /\ step = "adjust"
    /\ \E adjust \in 0 .. 2, side_adjusted \in -1 .. 0 :
          LET side_not_adjusted == -side_adjusted - 1 IN
          /\ adjust_bottom' = <<adjust>>
          /\ join_overlap' = <<OverlapFor(adjust)>>
          /\ IF adjust = 2
             THEN /\ row2' = Widen(Widen(Heighten(Heighten(row2, 0), -1), 1), -2)
                  /\ row1' = Widen(Widen(row1, 0), -1)
             ELSE IF adjust = 1
             THEN /\ row2' = Widen(Heighten(row2, side_adjusted),
                                   side_not_adjusted)
                  /\ row1' = Widen(Heighten(row1, side_not_adjusted),
                                   side_adjusted)
             ELSE /\ row1' = Widen(Widen(Heighten(Heighten(row1, 0), -1), 1), -2)
                  /\ row2' = Widen(Widen(row2, 0), -1)
    /\ step' = "draw"
    /\ UNCHANGED <<style, left, right, failure>>
    /\ UNCHANGED <<pathVars, shapeVars, cellVars, joinVars>>

\* The first composition: shape.adjoin(first_room, second_room, overlap=1,
\* collection=True).  adjoin has no parameter named collection, so the call
\* raises TypeError and builder ends there.
DrawRows ==
    /\ step = "draw"
    /\ step' = "raised"
    /\ failure' = "TypeError"
    /\ UNCHANGED <<style, row1, row2, left, right, adjust_bottom, join_overlap>>
    /\ UNCHANGED <<pathVars, shapeVars, cellVars, joinVars>>

\* An unsupported style: shape.ShapeCollection() is looked up in a module
\* that does not define it.
Unsupported ==
    /\ step = "unsupported"
    /\ step' = "raised"
    /\ failure' = "AttributeError"
    /\ UNCHANGED <<style, row1, row2, left, right, adjust_bottom, join_overlap>>
    /\ UNCHANGED <<pathVars, shapeVars, cellVars, joinVars>>

ManorNext ==
    \/ Grow
    \/ GrowDone
    \/ TopRow
    \/ Adjust
    \/ DrawRows
    \/ Unsupported

ManorSpec == ManorInit /\ [][ManorNext]_vars


\* Two arguments for a composition function, each a plain Shape or a
\* ShapeCollection of up to two entries; built keeps them as constructed.
JoinShapes == ShapesOf({"#"}, 1, MaxCols)

JoinEntries == {ShapeCoord(c, o) : c \in JoinShapes \ {<<>>}, o \in {<<0, 0>>, <<1, 1>>}}

JoinArgs ==
    {PlainShape(c) : c \in JoinShapes}
        \cup {ShapeCollection(<<>>)}
        \cup {ShapeCollection(<<e>>) : e \in JoinEntries}
        \cup {ShapeCollection(<<e, ShapeCoord(<<<<"#">>>>, <<0, 0>>)>>) : e \in JoinEntries}

JoinInit ==
    /\ arg1 \in JoinArgs
    /\ arg2 \in JoinArgs
    /\ built = <<arg1, arg2>>
    /\ canvas = <<>>
    /\ op = NoOp
    /\ prev = NoOp
    /\ res = NoResult
    /\ phase = "new"
    /\ NoPathfind
    /\ NoCell
    /\ NoManor

JoinApply(o, r) ==
    /\ phase = "new"
    /\ phase' = "done"
    /\ prev' = op
    /\ op' = o
    /\ res' = Built(r.res)
    /\ arg1' = r.shape1
    /\ arg2' = r.shape2
    /\ UNCHANGED <<canvas, built>>
    /\ UNCHANGED <<pathVars, cellVars, manorVars>>

JoinAdjoin ==
    \E overlap \in 0 .. 1, top_offset \in 0 .. MaxOffset, join_left \in BOOLEAN,
       collect \in BOOLEAN, offset_both \in BOOLEAN :
       JoinApply(Op("adjoin", <<>>, <<overlap, top_offset>>, None, NoneGlyph,
                    <<join_left, FALSE, collect, offset_both>>),
                 adjoin_any(arg1, arg2, overlap, top_offset, NoneGlyph,
                            join_left, FALSE, collect, offset_both))

JoinUnderneath ==
    \E left_offset \in 0 .. MaxOffset, overlap \in 0 .. 1, join_top \in BOOLEAN,
       offset_second \in BOOLEAN, collect \in BOOLEAN :
       JoinApply(Op("underneath", <<>>, <<left_offset, overlap>>, None, NoneGlyph,
                    <<join_top, FALSE, FALSE, offset_second, collect>>),
                 underneath_any(arg1, arg2, left_offset, overlap, NoneGlyph,
                                join_top, FALSE, FALSE, offset_second, collect))

JoinAtop ==
    \E left_offset \in 0 .. MaxOffset, overlap \in 0 .. 1, join_bottom \in BOOLEAN,
       offset_second \in BOOLEAN, collect \in BOOLEAN :
       JoinApply(Op("atop", <<>>, <<left_offset, overlap>>, None, NoneGlyph,
                    <<join_bottom, FALSE, FALSE, offset_second, collect>>),
                 atop_any(arg1, arg2, left_offset, overlap, NoneGlyph,
                          join_bottom, FALSE, FALSE, offset_second, collect))

JoinNext ==
    \/ JoinAdjoin
    \/ JoinUnderneath
    \/ JoinAtop

JoinSpec == JoinInit /\ [][JoinNext]_vars

----------------------------------------------------------------------------
(* Properties of Pathfind.                                                 *)

AllOpen == fgrid.open = Cells(fgrid.size)

\* Constructed with a fixed target and neither predicate.
TargetOnly ==
    /\ given_target /= None
    /\ ~target_condition.some
    /\ ~check_pos_condition.some

\* A cell the search may step on.
Accepted(pos) ==
    /\ Traversable(pos)
    /\ check_pos_condition.some => Holds(check_pos_condition, pos)

RECURSIVE ReachFrom(_)
ReachFrom(S) ==
    LET N == S \cup {q \in Cells(fgrid.size) :
                        Accepted(q) /\ \E p \in S : Adjacent(p, q)}
    IN  IF N = S THEN S ELSE ReachFrom(N)

\* The cells a search can examine as a neighbour of an expanded cell.
Examined ==
    {q \in Cells(fgrid.size) :
        Accepted(q) /\ \E p \in ReachFrom({start}) : Adjacent(p, q)}

\* The four neighbours of the fixed target are all walls or off the map.
WalledOff ==
    /\ given_target /= None
    /\ \A q \in Cells(fgrid.size) : Adjacent(q, given_target) => ~Traversable(q)

\* The target condition of a cell, as check_target's documentation gives it.
IsTarget(q) == q = target \/ (target_condition.some /\ q \in target_condition.at)

StepsAdjacent(p) == \A i \in 1 .. Len(p) - 1 : Adjacent(p[i], p[i + 1])

C2_NoPathIsFalseOrNone ==
    \A i \in 1 .. Len(hist) :
        (/\ hist[i].searched
         /\ \/ \A q \in Examined : ~IsTarget(q)
            \/ WalledOff /\ ~target_condition.some /\ Traversable(start))
            => ~hist[i].exists /\ hist[i].path = <<>>

C2_Witness ==
    /\ Len(hist) = 2
    /\ hist[1].method = "path_exists" /\ hist[2].method = "get_path"
    /\ WalledOff /\ TargetOnly
    /\ given_target \in fgrid.open /\ start \in fgrid.open
    /\ Cardinality(ReachFrom({start})) >= 3
    /\ ~hist[1].exists /\ ~hist[2].exists
    /\ hist[1].steps >= 3

Untouched ==
    /\ nlist = <<>>
    /\ dgrid = Grid(fgrid.size, INFINITY)
    /\ pgrid = Grid(fgrid.size, None)

NoSearchResult(r) ==
    /\ r.exists
    /\ ~r.searched
    /\ r.steps = 0
    /\ r.method = "get_path" => r.path = <<start>>

\* C4 as stated: when start is the fixed target, or no target is fixed and
\* the predicate holds for start, every call answers true / [start] and no
\* search is run.
C4_AsStated ==
    (\/ start = given_target
     \/ given_target = None /\ Holds(target_condition, start))
        => /\ pc = "idle"
           /\ Untouched
           /\ \A i \in 1 .. Len(hist) : NoSearchResult(hist[i])

\* C4 amended: when start is the fixed target, every call answers true /
\* [start] and no search is run; nothing is seeded or written.
C4_StartIsTarget ==
    start = given_target
        => /\ pc = "idle"
           /\ Untouched
           /\ \A i \in 1 .. Len(hist) : NoSearchResult(hist[i])

C4_Witness ==
    /\ start = given_target
    /\ Len(hist) = 2
    /\ hist[1].method = "path_exists" /\ hist[2].method = "get_path"
    /\ hist[2].path = <<start>>
    /\ Cardinality(fgrid.open) >= 3

----------------------------------------------------------------------------
(* Properties of Shape.                                                    *)

Min(a, b) == IF a <= b THEN a ELSE b

\* Every row is as long as the Shape is wide.
Rectangular(c) == \A r \in 1 .. Len(c) : Len(c[r]) = Width(c)

\* The glyph a canvas stores at xy, when it stores one there.
Stores(c, xy, g) ==
    LET got == Shape_getitem(c, xy) IN got.err = "" /\ got.glyph = g

\* draw_on's result at the cells the drawn shape stores: its glyph, or with
\* conflict checking the glyph self had there when that was not empty.
DrawnAsClaimed ==
    /\ res.err = ""
    /\ \A i \in 1 .. Len(Shape_iter(op.shape)) :
          LET cell == Shape_iter(op.shape)[i]
              nxy  == CoordAdd(cell[1], op.a)
              old  == Shape_getitem(built, nxy)
          IN  /\ old.err = ""
              /\ Stores(canvas, nxy,
                        IF op.flags[1] /\ old.glyph /= NoneGlyph
                        THEN old.glyph ELSE cell[2])

DrawOnInside ==
    /\ op.name = "draw_on"
    /\ ~op.flags[2]
    /\ SizeLeq(CoordAdd(op.a, Size(op.shape)), Size(built))

\* C5: after A.draw_on(B, offset) with B's footprint inside A, every cell
\* of A under B holds B's glyph, or with conflict checking its own glyph
\* when it was not empty.
C5_DrawOnAsStated == DrawOnInside => DrawnAsClaimed

\* C5 where every row of A is as long as A is wide.
C5_DrawOnRectangular == (DrawOnInside /\ Rectangular(built)) => DrawnAsClaimed

\* Shape(["..#", "..."]).draw_on(Shape(["X"]), Coord(2, 0)) leaves "#".
C5_ScenarioA ==
    /\ built = ScenarioA
    /\ op.name = "draw_on" /\ op.shape = << <<"X">> >> /\ op.a = <<2, 0>>
    /\ op.flags = <<TRUE, FALSE>>
    /\ res.err = ""
    /\ canvas = ScenarioA

\* C6: on a rectangular Shape of size (w, h), normalise(w', h', fill) with
\* w' >= w and h' >= h followed by trim(w, h) restores the size and every
\* cell inside the original bounds.
C6_NormaliseTrimRoundTrip ==
    (/\ op.name = "trim" /\ prev.name = "normalise"
     /\ Rectangular(built)
     /\ prev.a /= None /\ prev.b /= None
     /\ prev.a[1] >= Width(built) /\ prev.b[1] >= Height(built)
     /\ op.a = <<Width(built)>> /\ op.b = <<Height(built)>>
     /\ op.flags = <<FALSE, FALSE>>)
        => /\ res.err = ""
           /\ Size(canvas) = Size(built)
           /\ \A xy \in RectangleIterator(<<0, 0>>, Size(built)) :
                 Shape_getitem(canvas, xy) = Shape_getitem(built, xy)

C6_Witness ==
    /\ op.name = "trim" /\ prev.name = "normalise"
    /\ built = << <<"#", NoneGlyph>>, <<NoneGlyph, "#">> >>
    /\ prev.a = <<3>> /\ prev.b = <<3>> /\ prev.fill = "."
    /\ op.a = <<2>> /\ op.b = <<2>> /\ op.flags = <<FALSE, FALSE>>
    /\ canvas = built

SectionBegin == IF op.b = None THEN <<0, 0>> ELSE op.a

SectionStop == IF op.b = None THEN op.a ELSE op.b

SectionAsClaimed ==
    LET extent == <<SectionStop[1] - SectionBegin[1],
                    SectionStop[2] - SectionBegin[2]>>
    IN  /\ res.err = ""
        /\ Size(res.canvas) = extent
        /\ \A c \in RectangleIterator(<<0, 0>>, extent) :
              /\ Shape_getitem(res.canvas, c).err = ""
              /\ Shape_getitem(res.canvas, c)
                   = Shape_getitem(built, CoordAdd(c, SectionBegin))
        /\ canvas = built

SectionInside ==
    /\ op.name = "section"
    /\ CoordLess(SectionBegin, SectionStop)
    /\ SizeLeq(SectionStop, Size(built))

\* C7: section(start, stop) with start < stop inside S returns a new Shape
\* of size stop - start whose cell c is S[c + start], S unchanged; without
\* stop it runs from (0,0) to start.
C7_SectionAsStated == SectionInside => SectionAsClaimed

\* C7 where every row of S is as long as S is wide.
C7_SectionRectangular == (SectionInside /\ Rectangular(built)) => SectionAsClaimed

\* The canvas a composition stands for: the one returned, or the
\* collection flattened.
Flattened ==
    IF res.collected THEN Combine(res.coll) ELSE Done(res.canvas)

\* Every stored cell of shape shows in c at offset, unless hidden(xy).
ShowsAt(c, shape, offset, hidden(_)) ==
    \A i \in 1 .. Len(Shape_iter(shape)) :
        LET cell == Shape_iter(shape)[i]
            nxy  == CoordAdd(cell[1], offset)
        IN  hidden(nxy) \/ Stores(c, nxy, cell[2])

\* xy is a cell shape stores when put at offset.
Covers(shape, offset, xy) ==
    \E i \in 1 .. Len(Shape_iter(shape)) :
        CoordAdd(Shape_iter(shape)[i][1], offset) = xy

AdjoinDefaults ==
    /\ op.name = "adjoin"
    /\ op.a[2] = 0
    /\ op.fill = NoneGlyph
    /\ ~op.flags[1] /\ ~op.flags[2] /\ ~op.flags[4]
    /\ op.a[1] <= Min(Width(built), Width(op.shape))

AdjoinAsClaimed ==
    LET second == <<Width(built) - op.a[1], 0>>
        Never(xy) == FALSE
        UnderSecond(xy) == Covers(op.shape, second, xy)
    IN  /\ res.err = ""
        /\ Flattened.err = ""
        /\ Width(Flattened.canvas) = Width(built) + Width(op.shape) - op.a[1]
        /\ Height(Flattened.canvas) = Max(Height(built), Height(op.shape))
        /\ ShowsAt(Flattened.canvas, built, <<0, 0>>, UnderSecond)
        /\ ShowsAt(Flattened.canvas, op.shape, second, Never)

\* C8: adjoin(A, B, overlap=k) with 0 <= k <= min(A.width, B.width) and
\* the other arguments at their defaults succeeds, eagerly or collected,
\* and stands for a canvas A.width + B.width - k wide and
\* max(A.height, B.height) high, A from column 0, B from column
\* A.width - k.
C8_AdjoinAsStated == AdjoinDefaults => AdjoinAsClaimed

\* C8 for collect=True alone.
C8_AdjoinCollected == (AdjoinDefaults /\ op.flags[3]) => AdjoinAsClaimed

UnderneathCall ==
    /\ op.name = "underneath"
    /\ ~op.flags[1] /\ ~op.flags[2] /\ ~op.flags[5]
    /\ op.a[2] <= Min(Height(built), Height(op.shape))

UnderneathAsClaimed ==
    LET second == <<IF op.flags[4] THEN op.a[1] ELSE 0,
                    Height(built) - op.a[2]>>
        Never(xy) == FALSE
    IN  /\ res.err = ""
        /\ Height(res.canvas) = Height(built) + Height(op.shape) - op.a[2]
        /\ Width(res.canvas) = Max(Width(built), Width(op.shape)) + op.a[1]
        /\ ShowsAt(res.canvas, op.shape, second, Never)

C10_ShortRowReadAsStated ==
    (/\ op.name = "getitem"
     /\ 0 <= op.a[1] /\ op.a[1] < Width(built)
     /\ 0 <= op.a[2] /\ op.a[2] < Height(built)
     /\ op.a[1] >= Len(built[op.a[2] + 1]))
        => res.err = "" /\ res.glyph = NoneGlyph

----------------------------------------------------------------------------
(* Properties of indexed containers.                                       *)

Outside(xy, w, h) == ~(0 <= xy[1] /\ xy[1] < w /\ 0 <= xy[2] /\ xy[2] < h)

Above(xy, w, h) == xy[1] >= w \/ xy[2] >= h

ShapeIndexed == kind = "Shape" /\ op.name \in {"getitem", "setitem"}

GridIndexed == kind = "Grid" /\ op.name \in {"getvalue", "setvalue"}

\* C11: reading or writing a bounded Shape or a Grid at a coordinate
\* outside 0 <= x < width, 0 <= y < height, negative ones included, fails
\* and leaves the container as it was.
C11_OutsideAlwaysFails ==
    /\ (ShapeIndexed /\ Outside(op.a, Width(before), Height(before)))
          => res.err /= "" /\ canvas = before
    /\ (GridIndexed /\ Outside(op.a, before[1].width, before[1].height))
          => res.err /= "" /\ grid = before[1]

\* C11 for coordinates at or beyond the width or the height.
C11_AboveAlwaysFails ==
    /\ (ShapeIndexed /\ Above(op.a, Width(before), Height(before)))
          => res.err /= "" /\ canvas = before
    /\ (GridIndexed /\ Above(op.a, before[1].width, before[1].height))
          => res.err /= "" /\ grid = before[1]

\* The cell xy of a canvas is one its rows store.
Stored(c, xy) ==
    /\ 0 <= xy[2] /\ xy[2] < Len(c)
    /\ 0 <= xy[1] /\ xy[1] < Len(c[xy[2] + 1])

\* C12: on an AutoShape with fill f, after any calls, a read or write at
\* Coord(x, y) with x, y >= 0 does not fail; afterwards the actual width is
\* at least x + 1 and the actual height at least y + 1, a written cell
\* holds the written glyph, a read returns the cell, every cell created by
\* growth holds f and every cell stored before keeps its glyph.
C12_AutoShapeGrows ==
    (/\ kind = "AutoShape" /\ op.name \in {"getitem", "setitem"}
     /\ op.a[1] >= 0 /\ op.a[2] >= 0)
        => /\ res.err = ""
           /\ Width(canvas) >= op.a[1] + 1
           /\ Height(canvas) >= op.a[2] + 1
           /\ op.name = "getitem" => Stores(canvas, op.a, res.glyph)
           /\ \A xy \in RectangleIterator(<<0, 0>>, Size(canvas)) :
                 Stores(canvas, xy,
                        IF op.name = "setitem" /\ xy = op.a THEN op.fill
                        ELSE IF Stored(before, xy)
                        THEN Shape_getitem(before, xy).glyph
                        ELSE self_fill)

C12_Witness ==
    /\ kind = "AutoShape" /\ self_fill = "."
    /\ prev.name = "setitem" /\ prev.a = <<1, 1>>
    /\ op.name = "getitem" /\ op.a = <<2, 0>>
    /\ before = << <<".", ".">>, <<".", "X">> >>
    /\ canvas = << <<".", ".", ".">>, <<".", "X", ".">> >>
    /\ res.err = "" /\ res.glyph = "."

BoxAsClaimed ==
    LET w == op.a[1]
        h == op.a[2]
        b == op.b[1]
    IN  /\ res.err = ""
        /\ Size(canvas) = <<w, h>>
        /\ \A xy \in RectangleIterator(<<0, 0>>, <<w, h>>) :
              Stores(canvas, xy,
                     IF \/ xy[1] < b \/ xy[2] < b
                        \/ xy[1] >= w - b \/ xy[2] >= h - b
                     THEN op.flags[1] ELSE op.fill)

\* C13: for every width, height >= 1 and border b >= 0,
\* Box(width, height, b, fill, border_fill) constructs without error, and
\* its cell (x, y) holds border_fill exactly when x < b or y < b or
\* x >= width - b or y >= height - b, fill otherwise.
C13_BoxAsStated == (kind = "Box" /\ op.name = "Box") => BoxAsClaimed

\* C13 for borders no thicker than the box is wide or high.
C13_BoxBorderFits ==
    (kind = "Box" /\ op.name = "Box" /\ op.b[1] <= Min(op.a[1], op.a[2]))
        => BoxAsClaimed

----------------------------------------------------------------------------
(* Properties of the manor builder.                                        *)

\* Where the room with a serial number stands in a row.
PositionOf(row, serial) == CHOOSE i \in 1 .. Len(row) : row[i].serial = serial

LeftOfHall == PositionOf(row2, 0) - 1

RightOfHall == Len(row2) - PositionOf(row2, 0)

\* The rooms of a row made higher than the default.
Tall(row) == {i \in 1 .. Len(row) : row[i].height > DefaultRoomHeight}

Ended == step \in {"raised", "returned"}

\* C16: while the bottom row grows, every new room stands at the left or
\* the right end of the row, and the rooms left of the entrance hall and
\* those right of it differ in number by at most one.
C16_GrowthBalanced ==
    style = ONE_CORRIDOR
        => /\ PositionOf(row2, Len(row2) - 1) \in {1, Len(row2)}
           /\ Abs(LeftOfHall - RightOfHall) <= 1

\* C16 for the counters left and right instead of the rooms' places.
C16_CountersBalanced == style = ONE_CORRIDOR => Abs(left - right) <= 1

\* C17 as stated: the overlap of the final vertical join is 1 exactly when
\* the strategy heightens end rooms in both rows, and 3 when it heightens
\* the end rooms of one row only.
C17_OverlapAsStated ==
    adjust_bottom /= None
        => LET both == Tall(row1) /= {} /\ Tall(row2) /= {}
           IN  /\ join_overlap = <<1>> <=> both
               /\ ~both => join_overlap = <<3>>

\* C17 amended: the overlap fixed for the final vertical join is 1 exactly
\* when the strategy heightens both end rooms of the bottom row and none of
\* the top row, and 3 when it heightens an end room of the top row (both
\* of its ends, or one end in each row).
C17_OverlapByStrategy ==
    adjust_bottom /= None
        => /\ join_overlap \in {<<1>>, <<3>>}
           /\ join_overlap = <<1>>
                 <=> Tall(row1) = {} /\ Tall(row2) = {1, Len(row2)}
           /\ join_overlap = <<3>> <=> Tall(row1) /= {}

C17_Witness ==
    /\ step = "draw"
    /\ adjust_bottom = <<1>>
    /\ Tall(row1) /= {} /\ Tall(row2) /= {}
    /\ join_overlap = <<3>>

\* C18: builder(ONE_CORRIDOR) returns the unflattened collection and the
\* list of every Room of the two rows.
C18_ReturnsTwoThings ==
    (style = ONE_CORRIDOR /\ Ended) => step = "returned" /\ failure = ""

\* C19: in every one-corridor build the top row has as many rooms as the
\* bottom row, and the build ends with the corridor strip appended to the
\* collection.
C19_TopRowAndCorridor ==
    /\ (style = ONE_CORRIDOR /\ step \notin {"grow", "top"})
          => Len(row1) = Len(row2)
    /\ (style = ONE_CORRIDOR /\ Ended) => failure = ""

\* C19 for the room counts alone.
C19_TopRowMatches ==
    (style = ONE_CORRIDOR /\ step \notin {"grow", "top"})
        => Len(row1) = Len(row2) /\ Len(row2) \in {5, 6}

----------------------------------------------------------------------------
(* Properties of the search's grids.                                       *)

\* The cells with a recorded distance.
Reached == {c \in Cells(fgrid.size) : Grid_getvalue(dgrid, c) < INFINITY}

NoRepeat(p) == \A i, j \in 1 .. Len(p) : p[i] = p[j] => i = j

----------------------------------------------------------------------------
(* Properties of the composition functions.                                *)

\* A call of adjoin, underneath or atop has returned.
Joined == phase = "done" /\ op.name \in {"adjoin", "underneath", "atop"}

\* The argument that the call treated as its second shape: join_left and
\* join_top swap the two, and atop swaps them unless join_bottom is set.
SecondOfCall == IF op.flags[1] = (op.name /= "atop") THEN 1 ELSE 2

\* C15: adjoin, underneath and atop are pure: for every combination of
\* plain Shapes and ShapeCollections as the two inputs, neither input's
\* cells nor (for a collection) its stored child offsets are changed by
\* the call.
C15_JoinsArePure == Joined => arg1 = built[1] /\ arg2 = built[2]

\* C15, as far as it holds: a plain Shape argument, and a collection
\* that the call treats as its first shape, are as they were before.
C15_FirstAndPlainUnchanged ==
    Joined =>
        /\ ~IsCollection(built[1]) => arg1 = built[1]
        /\ ~IsCollection(built[2]) => arg2 = built[2]
        /\ SecondOfCall = 2 => arg1 = built[1]
        /\ SecondOfCall = 1 => arg2 = built[2]
        /\ \A i \in 1 .. Len(arg2.coll) : arg2.coll[i].shape = built[2].coll[i].shape
        /\ \A i \in 1 .. Len(arg1.coll) : arg1.coll[i].shape = built[1].coll[i].shape

C15_Witness ==
    /\ Joined
    /\ IsCollection(built[2])
    /\ built[2].coll /= <<>>
    /\ arg2 /= built[2]
    /\ res.collected

\* The cells expanded so far in the current run.
Expanded == {popped[i] : i \in 1 .. Len(popped)}

\* The cell the next turn of the loop expands is a nearest of the frontier.
NearestIsNext ==
    pc = "pathfind" =>
        \A i \in 1 .. Len(nlist) :
            Grid_getvalue(dgrid, nlist[1]) <= Grid_getvalue(dgrid, nlist[i])

\* The cells of a run were expanded in order of distance.
ExpandedInOrder ==
    \A i, j \in 1 .. Len(popped) :
        i < j => Grid_getvalue(dgrid, popped[i]) <= Grid_getvalue(dgrid, popped[j])

\* A step leaves the distance and predecessor of every expanded cell.
ExpandedKept ==
    \A c \in Expanded :
        /\ Grid_getvalue(dgrid', c) = Grid_getvalue(dgrid, c)
        /\ Grid_getvalue(pgrid', c) = Grid_getvalue(pgrid, c)

\* C21: each cell chosen for expansion has the smallest tentative distance
\* of all cells in the frontier at that moment, so the distances of
\* successively expanded cells never decrease and an expanded cell's
\* distance and predecessor are never changed afterwards.
C21_ExpandsNearestFirst ==
    [](NearestIsNext /\ ExpandedInOrder) /\ [][ExpandedKept]_vars

C21_Witness ==
    /\ pc = "pathfind"
    /\ Len(popped) >= 3
    /\ Grid_getvalue(dgrid, popped[1]) < Grid_getvalue(dgrid, popped[3])
    /\ Len(nlist) >= 2
    /\ Grid_getvalue(dgrid, nlist[1]) < Grid_getvalue(dgrid, nlist[Len(nlist)])

----------------------------------------------------------------------------
(* Further properties of Shape.                                            *)

\* The canvas trim was called on: the Shape as built, or as normalise
\* left it.
Untrimmed ==
    IF prev.name = "normalise"
    THEN normalise(built, prev.a, prev.b, prev.fill).canvas
    ELSE built

\* The request is to a width or height below zero.
TrimBelowZero ==
    \/ op.a /= None /\ op.a[1] < 0
    \/ op.b /= None /\ op.b[1] < 0

\* The Shape is no larger than the width and height requested.
TrimNothing ==
    /\ op.a /= None => op.a[1] >= Width(Untrimmed)
    /\ op.b /= None => op.b[1] >= Height(Untrimmed)

\* C22: trim never fails and changes nothing when the shape is already no
\* larger than the requested width and height; a request to trim to a
\* width or height below zero is rejected with a ShapeError and leaves
\* the shape unchanged.
C22_TrimAsStated ==
    op.name = "trim" =>
        /\ (TrimNothing /\ ~TrimBelowZero) => res.err = "" /\ canvas = Untrimmed
        /\ TrimBelowZero => res.err = "ShapeError" /\ canvas = Untrimmed

\* C22, its first half: trim of a Shape that is already small enough
\* returns normally and leaves the canvas as it was.
C22_TrimNoOpSafe ==
    (op.name = "trim" /\ TrimNothing /\ ~TrimBelowZero)
        => res.err = "" /\ canvas = Untrimmed

\* C22, what a request below zero does: unless there is nothing to pop,
\* it ends in IndexError from list.pop with rows already removed.
C22_TrimBelowZeroPops ==
    (op.name = "trim" /\ TrimBelowZero) =>
        \/ res.err = "IndexError" /\ canvas /= Untrimmed
        \/ res.err = "IndexError" /\ (Untrimmed = <<>> \/ Untrimmed[1] = <<>>)
        \/ res.err = "" /\ Untrimmed = <<>> /\ canvas = <<>>

----------------------------------------------------------------------------
(* Further properties of the manor builder.                                *)

\* C23: for the supported one-corridor style the builder always runs to
\* completion without error, for every sequence of random draws: the
\* bottom-row growth loop terminates (with 5 or 6 rooms) and every
\* composition and edge-adjustment step succeeds.
C23_BuilderCompletes ==
    style = ONE_CORRIDOR =>
        /\ Len(row2) <= 6
        /\ step /= "grow" => Len(row2) \in {5, 6}
        /\ failure = ""
        /\ step /= "raised"

\* C23 for the growth loop and the edge adjustment alone: the loop is
\* left with 5 or 6 rooms after at most five rooms were added, and the
\* adjustment indexes rooms that exist.
C23_GrowthAndAdjustmentEnd ==
    style = ONE_CORRIDOR =>
        /\ Len(row2) <= 6
        /\ Len(row2) = 1 + left + right
        /\ step /= "grow" => Len(row2) \in {5, 6}
        /\ step \in {"draw", "raised"} => adjust_bottom /= None /\ Len(row1) = Len(row2)
        /\ failure /= "" => step = "raised" /\ adjust_bottom /= None

----------------------------------------------------------------------------
(* Further properties of underneath and of the views.                      *)

\* An eager underneath(A, B, overlap=k, fill=f), 0 <= k <= both heights,
\* the other arguments at their defaults.
UnderneathEager ==
    /\ op.name = "underneath"
    /\ op.flags = <<FALSE, FALSE, FALSE, TRUE, FALSE>>
    /\ op.a[1] = 0
    /\ op.a[2] <= Min(Height(built), Height(op.shape))

\* The rows of the result that A and B both lie on.
OverlapRow(xy) == xy[2] >= Height(built) - op.a[2] /\ xy[2] < Height(built)

\* A's cells and B's cells outside the overlapping rows show at their
\* offsets, and a cell neither covers holds the fill.
UnderneathShowsBoth ==
    LET second == <<0, Height(built) - op.a[2]>> IN
    /\ res.err = ""
    /\ ShowsAt(res.canvas, built, <<0, 0>>, OverlapRow)
    /\ ShowsAt(res.canvas, op.shape, second, OverlapRow)
    /\ \A xy \in RectangleIterator(<<0, 0>>, Size(res.canvas)) :
          \/ Covers(built, <<0, 0>>, xy)
          \/ Covers(op.shape, second, xy)
          \/ Stores(res.canvas, xy, op.fill)

\* C24: for eager underneath(A, B, overlap=k, fill=f) with any fill f,
\* empty or not, every cell of A outside the k overlapping rows appears in
\* the result at A's offset and every cell of B outside them appears at
\* B's offset; f appears only in cells covered by neither shape.
C24_UnderneathShowsBoth == UnderneathEager => UnderneathShowsBoth

\* C24 for the empty fill alone.
C24_UnderneathEmptyFill ==
    (UnderneathEager /\ op.fill = NoneGlyph) => UnderneathShowsBoth

\* C24, what a fill that is a glyph does: the canvas is made of it, the
\* conflict check of the first draw skips every cell of A, and the result
\* shows the fill wherever B does not lie.
C24_FillHidesFirst ==
    (UnderneathEager /\ op.fill /= NoneGlyph) =>
        /\ res.err = ""
        /\ \A xy \in RectangleIterator(<<0, 0>>, Size(res.canvas)) :
              \/ Covers(op.shape, <<0, Height(built) - op.a[2]>>, xy)
              \/ Stores(res.canvas, xy, op.fill)

\* The view a view_iter call went through.
IteratedView == views[op.b[1]]

\* One pair per stored cell of the view's row or column, in order.
PairsOfRow(c, row) ==
    [i \in 1 .. Len(c[row + 1]) |-> << <<i - 1, row>>, c[row + 1][i] >>]

PairsOfColumn(c, column) ==
    [i \in 1 .. Len(c) |-> << <<column, i - 1>>, c[i][column + 1] >>]

\* C25: iterating a row view of row r of a Shape yields, in column order,
\* one (Coord(i, r), glyph) pair for every stored column i of that row,
\* just as iterating a column view yields one pair per row.
C25_RowViewIterates ==
    (/\ op.name = "view_iter"
     /\ IteratedView.axis = "row"
     /\ IteratedView.index < Height(canvas))
        => /\ res.err = ""
           /\ res.yielded = PairsOfRow(canvas, IteratedView.index)

\* C25 for a column view of a column that every row stores.
C25_ColumnViewIterates ==
    (/\ op.name = "view_iter"
     /\ IteratedView.axis = "column"
     /\ \A r \in 1 .. Len(canvas) : IteratedView.index < Len(canvas[r]))
        => /\ res.err = ""
           /\ res.yielded = PairsOfColumn(canvas, IteratedView.index)

\* C25, what iterating a row view does: it ends in TypeError before a
\* pair is yielded, whatever the row holds.
C25_RowViewRaises ==
    (op.name = "view_iter" /\ IteratedView.axis = "row")
        => res.err \in {"TypeError", "IndexError"} /\ res.yielded = <<>>

----------------------------------------------------------------------------
(* Further properties of Pathfind.                                         *)

\* C26: on one Pathfind object, get_path() called after path_exists() (a
\* second search run over the same distance and predecessor grids)
\* returns a non-empty path exactly when path_exists() returned true, and
\* the same path as a fresh object would return.
C26_SecondCallAgrees ==
    (/\ Len(hist) >= 2
     /\ hist[1].method = "path_exists" /\ hist[2].method = "get_path")
        => /\ hist[2].exists <=> hist[1].exists
           /\ hist[2].exists <=> hist[2].path /= <<>>
           /\ hist[2].path = get_path_fresh(fgrid.size, start, given_target)

\* C26 for the first call on an object, which is a fresh one.
C26_FirstCallIsFresh ==
    (Len(hist) >= 1 /\ hist[1].method = "get_path")
        => /\ hist[1].path = get_path_fresh(fgrid.size, start, given_target)
           /\ hist[1].exists <=> hist[1].path /= <<>>

\* C26, what the second search does: the distances of the first are
\* still recorded, so no neighbour of start enters the frontier, and a
\* path is returned only when a neighbour of start, or start itself,
\* is the target.
C26_SecondSearchIsStale ==
    (/\ Len(hist) >= 2
     /\ hist[1].searched /\ hist[2].searched)
        => /\ hist[2].steps <= 1
           /\ hist[2].exists => hist[1].exists
           /\ (hist[2].exists /\ hist[2].method = "get_path")
                 => Len(hist[2].path) <= 2

\* The target condition as the object was constructed: the fixed target,
\* or a cell the target predicate holds for.
MeetsTarget(q) == q = given_target \/ Holds(target_condition, q)

\* A returned path ends at start, begins at a cell meeting the target
\* condition, and but for start lies on cells the search may step on.
PathIsSound(path) ==
    /\ path[Len(path)] = start
    /\ MeetsTarget(path[1])
    /\ \A i \in 1 .. Len(path) : path[i] /= start => Accepted(path[i])

BothSupplied == given_target /= None /\ target_condition.some

\* C27: whenever get_path() returns a non-empty path, its last element is
\* start, its first element satisfies the target condition, and every
\* element other than start is passable and accepted by the position
\* filter; this holds when only a fixed target, only a target predicate,
\* or both are supplied.
C27_PathIsSound ==
    \A i \in 1 .. Len(hist) :
        (hist[i].method = "get_path" /\ hist[i].path /= <<>>)
            => PathIsSound(hist[i].path)

\* C27 with a fixed target alone or a target predicate alone.
C27_PathIsSoundForOne ==
    ~BothSupplied =>
        \A i \in 1 .. Len(hist) :
            (hist[i].method = "get_path" /\ hist[i].path /= <<>>)
                => PathIsSound(hist[i].path)

----------------------------------------------------------------------------
(* The rows of the manor after the edge adjustment.                        *)

\* The edge adjustment of a one-corridor build is done.
Adjusted == style = ONE_CORRIDOR /\ step \in {"draw", "raised", "returned"}

\* C29: after the edge-adjustment step, for each of the three strategies,
\* each random side choice and each row length (5 or 6), the sum of room
\* widths of the top row equals the sum of room widths of the bottom row,
\* so the two rows drawn from them have the same width.
C29_RowsEquallyWide ==
    Adjusted =>
        /\ Len(row2) \in {5, 6}
        /\ Len(row1) = Len(row2)
        /\ SumWidths(row1) = SumWidths(row2)
        /\ SumWidths(row1) = Len(row1) * DefaultRoomWidth + (IF adjust_bottom = <<1>> THEN 2 ELSE 4)
        /\ RowWidth(row1) = RowWidth(row2)

C29_Witness ==
    /\ Adjusted
    /\ adjust_bottom = <<1>>
    /\ Len(row2) = 6
    /\ row2[1].height > DefaultRoomHeight
    /\ row1[1].width > DefaultRoomWidth
    /\ row2[6].width > DefaultRoomWidth
    /\ SumWidths(row1) = SumWidths(row2)

\* The lower edge of room i of the bottom row, as builder would place it.
BottomEdge(row, i) == BottomOffset(row, i) + row[i].height

\* C30: in the rendered bottom row, for every edge-adjustment strategy
\* and random choice, the vertical offset applied to a room plus that
\* room's height is the same for every room of the row, while all
\* top-row rooms share the top edge at row 0; the rows are rendered in
\* every one-corridor build.
C30_RowsAligned ==
    (style = ONE_CORRIDOR /\ Ended) =>
        /\ step = "returned"
        /\ \A i, j \in 1 .. Len(row2) : BottomEdge(row2, i) = BottomEdge(row2, j)
        /\ \A i \in 1 .. Len(row1) : TopOffset(row1, i) = 0

\* C30 for the offsets alone: the offsets builder would pass for the
\* adjusted rows put every room of the bottom row on one lower edge, two
\* rows below that of a default room.
C30_OffsetsAlign ==
    Adjusted =>
        /\ \A i \in 1 .. Len(row2) : BottomEdge(row2, i) = DefaultRoomHeight + builder_top_offset
        /\ \A i \in 1 .. Len(row1) : TopOffset(row1, i) = 0

----------------------------------------------------------------------------
(* The frontier over one run, and runs longer than INFINITY steps.         *)

\* No cell of the frontier was expanded earlier in the run, so none was
\* appended a second time.
AppendedOnce == \A i \in 1 .. Len(nlist) : ~InList(nlist[i], popped)

\* C28: within one search run no coordinate is appended to the frontier
\* more than once and the frontier never holds a duplicate, so the run
\* performs at most width * height expansions (and so terminates), on any
\* grid and for any oracle and predicates.
C28_FrontierBounded ==
    /\ NoRepeat(nlist)
    /\ steps <= fgrid.size[1] * fgrid.size[2]
    /\ AppendedOnce

\* C28 on the grids of PathSpec: the cells expanded in a run are distinct
\* as well.
C28_ExpandedOnce == C28_FrontierBounded /\ NoRepeat(popped)

\* The cells expanded latest that a state is asked about.
Recent == 4

\* C21 at the cells expanded latest: the distances of successively
\* expanded cells never decrease and are not changed after the expansion,
\* so the distances now recorded for the last Recent cells expanded are in
\* the order of their expansion.
C21_RecentInOrder ==
    \A i, j \in Max(1, Len(popped) - Recent + 1) .. Len(popped) :
        i < j => Grid_getvalue(dgrid, popped[i]) <= Grid_getvalue(dgrid, popped[j])

====
